---- MODULE Spec2Model ----
(***************************************************************************)
(* A model of kvstore: the SQLite-backed Durable Store (src/src/db.rs),    *)
(* the entry type and the in-memory cache (src/src/store.rs), and the CLI  *)
(* and HTTP handlers that drive them (src/src/lib.rs).                     *)
(*                                                                         *)
(* Strings that the code trims, sorts or compares (tags, keys, persisted   *)
(* timestamps) are sequences of byte codes, so that trimming, ordering and *)
(* the textual comparison SQLite performs are computed, not assumed.       *)
(*                                                                         *)
(* Time is scaled: a DateTime is [t |-> tick, f |-> fraction], one tick    *)
(* standing for a minute and TicksPerHour ticks for an hour; the fraction  *)
(* (hundredths of a tick) stands for the sub-second part that              *)
(* DateTime::to_rfc3339 prints with a variable number of digits.           *)
(***************************************************************************)
EXTENDS Integers, Sequences, FiniteSets, TLC

\* db:          the kv table of the database file (committed rows)
\* cache:       the Store of the running CLI process (key -> Entry)
\* now:         the last reading of Utc::now()
\* last:        the operation executed last, with its arguments and result
\* tx:          the open transaction of the connection, if any
\* lastCleanup: last_cleanup of serve_viewer, None before the loop's first sweep
\* steps:       the number of commands and requests executed so far
\* meta:        the header of the database file and its schema (sqlite_master)
\* index:       the Store with its sorted key list and its recent-history log
\* recentFile:  the contents of the recent-history side file, None when missing
\* listener:    the TcpListener loop of serve_viewer, "running" or "stopped"
\* stream:      the connection handle_http_connection is working on and the
\*              position it has reached in it, None between connections
VARIABLES db, cache, now, last, tx, lastCleanup, steps, meta, index, recentFile, listener,
          stream

vars ==
    <<db, cache, now, last, tx, lastCleanup, steps, meta, index, recentFile, listener, stream>>

(***************************************************************************)
(* Bounds of the model.                                                    *)
(***************************************************************************)
TicksPerHour == 2
StartTick == 8
MaxTick == 12
MaxSteps == 3

(***************************************************************************)
(* Program constants.                                                      *)
(***************************************************************************)
GraceHours == 1
CleanupIntervalHours == 1
SchemaVersion == 2
RECENT_CAPACITY == 50

(***************************************************************************)
(* Byte strings.                                                           *)
(***************************************************************************)
Ch == [sp |-> 32, quote |-> 34, plus |-> 43, comma |-> 44, dot |-> 46,
       zero |-> 48, colon |-> 58, zed |-> 90, lbr |-> 91, rbr |-> 93,
       a |-> 97, b |-> 98, x |-> 120, y |-> 121, nl |-> 10]

RECURSIVE StrLess(_, _)
\* byte-wise lexicographic order: Rust's Ord for String and SQLite's BINARY
\* collation (memcmp, then the shorter string first)
StrLess(s, u) ==
    IF u = <<>> THEN FALSE
    ELSE IF s = <<>> THEN TRUE
    ELSE IF s[1] # u[1] THEN s[1] < u[1]
    ELSE StrLess(Tail(s), Tail(u))

StrLeq(s, u) == s = u \/ StrLess(s, u)

RECURSIVE TrimStart(_)
TrimStart(s) == IF s # <<>> /\ s[1] = Ch.sp THEN TrimStart(Tail(s)) ELSE s

RECURSIVE TrimEnd(_)
TrimEnd(s) ==
    IF s # <<>> /\ s[Len(s)] = Ch.sp THEN TrimEnd(SubSeq(s, 1, Len(s) - 1)) ELSE s

Trim(s) == TrimEnd(TrimStart(s))

RECURSIVE SortedSeq(_)
\* the ascending sequence of a finite set of byte strings
SortedSeq(S) ==
    IF S = {} THEN <<>>
    ELSE LET m == CHOOSE e \in S : \A o \in S : StrLeq(e, o)
         IN  <<m>> \o SortedSeq(S \ {m})

Range(s) == {s[i] : i \in DOMAIN s}

\* Option<T>: <<>> is None, <<v>> is Some(v)
None == <<>>
Some(v) == <<v>>
IsSome(o) == o # <<>>

(***************************************************************************)
(* chrono::DateTime<Utc> and its RFC 3339 text.                            *)
(***************************************************************************)
DtLeq(d, e) == d.t < e.t \/ (d.t = e.t /\ d.f <= e.f)
DtLess(d, e) == DtLeq(d, e) /\ d # e
DtMax(d, e) == IF DtLeq(d, e) THEN e ELSE d

\* DateTime + Duration::minutes(m), DateTime - Duration::hours(h)
PlusMinutes(d, m) == [t |-> d.t + m, f |-> d.f]
PlusHours(d, h) == [t |-> d.t + h * TicksPerHour, f |-> d.f]
MinusHours(d, h) == [t |-> d.t - h * TicksPerHour, f |-> d.f]

Digit(n) == Ch.zero + n

\* the fixed-width date and time-of-day fields
WholeText(t) == <<Digit(t \div 10), Digit(t % 10)>>

\* SecondsFormat::AutoSi: no fraction when it is zero, otherwise as few digit
\* groups as represent it exactly
FracText(f) ==
    IF f = 0 THEN <<>>
    ELSE IF f % 10 = 0 THEN <<Ch.dot, Digit(f \div 10)>>
    ELSE <<Ch.dot, Digit(f \div 10), Digit(f % 10)>>

OffsetText == <<Ch.plus, Ch.zero, Ch.zero, Ch.colon, Ch.zero, Ch.zero>>

\* as to_rfc3339_opts(SecondsFormat::AutoSi, true) would print it
ToRfc3339Zulu(d) == WholeText(d.t) \o FracText(d.f) \o <<Ch.zed>>

\* as to_rfc3339_opts(SecondsFormat::Secs, false) would print it
ToRfc3339Secs(d) == WholeText(d.t) \o OffsetText

\* DateTime::to_rfc3339
ToRfc3339(d) == WholeText(d.t) \o FracText(d.f) \o OffsetText

ParseRfc3339(s) ==
    LET whole == (s[1] - Ch.zero) * 10 + (s[2] - Ch.zero)
        frac == IF s[3] # Ch.dot THEN 0
                ELSE IF s[5] \in Ch.zero .. (Ch.zero + 9)
                     THEN (s[4] - Ch.zero) * 10 + (s[5] - Ch.zero)
                     ELSE (s[4] - Ch.zero) * 10
    IN  [t |-> whole, f |-> frac]

(***************************************************************************)
(* store.rs: Entry.                                                        *)
(***************************************************************************)
RECURSIVE TrimmedNonEmpty(_)
\* the trimmed, non-empty members of a tag list, as a set
TrimmedNonEmpty(raw) ==
    IF raw = <<>> THEN {}
    ELSE LET trimmed == Trim(Head(raw))
         IN  (IF trimmed = <<>> THEN {} ELSE {trimmed}) \cup TrimmedNonEmpty(Tail(raw))

\* a normalize_tags that would insert the tags as given, blanks included
normalize_tags_raw(raw) == SortedSeq(Range(raw) \ {<<>>})

\* Store::normalize_tags: a BTreeSet of the trimmed non-empty tags, in order
normalize_tags(raw) == SortedSeq(TrimmedNonEmpty(raw))

RECURSIVE JoinQuoted(_)
JoinQuoted(tags) ==
    IF tags = <<>> THEN <<>>
    ELSE <<Ch.quote>> \o Head(tags) \o <<Ch.quote>>
         \o (IF Len(tags) > 1 THEN <<Ch.comma>> ELSE <<>>) \o JoinQuoted(Tail(tags))

\* Entry::tags_json: serde_json::to_string of the tag vector
tags_json(tags) == <<Ch.lbr>> \o JoinQuoted(tags) \o <<Ch.rbr>>

RECURSIVE ParseStrings(_, _, _)
\* the string literals of a JSON array body: cur is the literal being read
\* (None outside a literal), acc the literals read so far
ParseStrings(s, cur, acc) ==
    IF s = <<>> THEN acc
    ELSE IF Head(s) = Ch.quote
         THEN IF IsSome(cur) THEN ParseStrings(Tail(s), None, Append(acc, cur[1]))
              ELSE ParseStrings(Tail(s), Some(<<>>), acc)
         ELSE IF IsSome(cur) THEN ParseStrings(Tail(s), Some(Append(cur[1], Head(s))), acc)
              ELSE ParseStrings(Tail(s), cur, acc)

\* serde_json::from_str::<Vec<String>>, with the empty-text case of from_persisted
ParseTagsJson(text) ==
    IF Trim(text) = <<>> THEN <<>> ELSE ParseStrings(text, None, <<>>)

\* Entry::with_timestamps
with_timestamps(value, tags, created_at, updated_at, expires_at) ==
    [value |-> value, tags |-> tags, created_at |-> created_at,
     updated_at |-> updated_at, expires_at |-> expires_at]

\* Entry::from_persisted, applied to a row of the kv table
from_persisted(row) ==
    [value |-> row.value,
     tags |-> ParseTagsJson(row.tags),
     created_at |-> ParseRfc3339(row.created_at),
     updated_at |-> ParseRfc3339(row.updated_at),
     expires_at |-> IF IsSome(row.expires_at) /\ Trim(row.expires_at[1]) # <<>>
                    THEN Some(ParseRfc3339(row.expires_at[1]))
                    ELSE None]

\* a for_update that would take created_at from the clock
for_update_fresh(existing, value, tags, utcNow) ==
    [value |-> value, tags |-> tags, created_at |-> utcNow, updated_at |-> utcNow,
     expires_at |-> IF IsSome(existing) THEN existing[1].expires_at ELSE None]

\* Entry::for_update; existing is an Option<Entry>, utcNow the reading of Utc::now()
for_update(existing, value, tags, utcNow) ==
    [value |-> value,
     tags |-> tags,
     created_at |-> IF IsSome(existing) THEN existing[1].created_at ELSE utcNow,
     updated_at |-> utcNow,
     expires_at |-> IF IsSome(existing) THEN existing[1].expires_at ELSE None]

(***************************************************************************)
(* TTL arithmetic.  ttl_minutes is a u64 cast with `as i64`; the width is  *)
(* scaled to MinuteBits bits, and MaxSpan stands for the largest span that *)
(* chrono::Duration::minutes and DateTime + Duration accept (they panic    *)
(* beyond it).                                                             *)
(***************************************************************************)
MinuteBits == 4
MaxSpan == 3

\* `minutes as i64`: two's complement reinterpretation
AsSigned(minutes) ==
    IF minutes >= 2 ^ (MinuteBits - 1) THEN minutes - 2 ^ MinuteBits ELSE minutes

\* whether chrono::Duration::minutes(m) and the addition to a DateTime return
SpanOk(m) == m <= MaxSpan /\ -m <= MaxSpan

\* Entry::set_ttl_minutes(Some(minutes))
set_ttl_minutes(entry, minutes, utcNow) ==
    [entry EXCEPT !.expires_at = Some(PlusMinutes(utcNow, AsSigned(minutes)))]

\* Entry::extend_ttl_minutes
extend_ttl_minutes(entry, ttl_minutes, utcNow) ==
    LET base == IF IsSome(entry.expires_at)
                THEN DtMax(entry.expires_at[1], utcNow)
                ELSE utcNow
    IN  [entry EXCEPT !.expires_at = Some(PlusMinutes(base, AsSigned(ttl_minutes)))]

(***************************************************************************)
(* db.rs: the kv table and the Database operations.  A table is a function *)
(* from the stored keys to rows; a row holds the persisted texts.          *)
(***************************************************************************)
Keys == {<<Ch.a>>, <<Ch.b>>}

EmptyTable == [k \in {} |-> None]

Put(f, k, v) == [x \in DOMAIN f \cup {k} |-> IF x = k THEN v ELSE f[x]]

Drop(f, S) == [x \in DOMAIN f \ S |-> f[x]]

\* the parameters bound by execute_upsert (params![...])
RowOf(entry) ==
    [value |-> entry.value,
     tags |-> tags_json(entry.tags),
     created_at |-> ToRfc3339(entry.created_at),
     updated_at |-> ToRfc3339(entry.updated_at),
     expires_at |-> IF IsSome(entry.expires_at)
                    THEN Some(ToRfc3339(entry.expires_at[1]))
                    ELSE None]

\* Database::execute_upsert: INSERT ... ON CONFLICT(key) DO UPDATE SET value, tags,
\* updated_at, expires_at
execute_upsert(tbl, key, entry) ==
    LET row == RowOf(entry)
    IN  IF key \in DOMAIN tbl
        THEN [tbl EXCEPT ![key] = [@ EXCEPT !.value = row.value,
                                            !.tags = row.tags,
                                            !.updated_at = row.updated_at,
                                            !.expires_at = row.expires_at]]
        ELSE Put(tbl, key, row)

\* Database::upsert_entry, committed
upsert_entry(tbl, key, entry) == execute_upsert(tbl, key, entry)

\* a delete_entry that would not look at the affected row count
delete_entry_silent(tbl, key) == [res |-> "ok", tbl |-> Drop(tbl, {key})]

\* Database::delete_entry: NotFound (and no commit) when no row was affected
delete_entry(tbl, key) ==
    IF key \in DOMAIN tbl
    THEN [res |-> "ok", tbl |-> Drop(tbl, {key})]
    ELSE [res |-> "NotFound", tbl |-> tbl]

RECURSIVE UpsertAll(_, _)
UpsertAll(tbl, entries) ==
    IF entries = <<>> THEN tbl
    ELSE UpsertAll(execute_upsert(tbl, Head(entries)[1], Head(entries)[2]), Tail(entries))

\* a replace_all without its DELETE FROM kv
replace_all_keep(tbl, entries) == UpsertAll(tbl, entries)

\* Database::replace_all, committed: DELETE FROM kv, then one upsert per entry
replace_all(tbl, entries) == UpsertAll(Drop(tbl, DOMAIN tbl), entries)

\* a threshold one hour further back
cleanup_threshold_late(utcNow) == ToRfc3339(MinusHours(utcNow, GraceHours + 1))

\* the threshold text of cleanup_expired_entries
cleanup_threshold(utcNow) == ToRfc3339(MinusHours(utcNow, GraceHours))

\* the rows matched by: expires_at IS NOT NULL AND expires_at <= ?1 (a comparison
\* of TEXT values)
ExpiredKeys(tbl, threshold) ==
    {k \in DOMAIN tbl :
        IsSome(tbl[k].expires_at) /\ StrLeq(tbl[k].expires_at[1], threshold)}

\* Database::cleanup_expired_entries, committed
cleanup_expired_entries(tbl, utcNow) ==
    LET dead == ExpiredKeys(tbl, cleanup_threshold(utcNow))
    IN  [tbl |-> Drop(tbl, dead), deleted |-> Cardinality(dead)]

\* Database::load_entries: SELECT ... ORDER BY key ASC, each row through from_persisted
load_entries(tbl) ==
    LET keys == SortedSeq(DOMAIN tbl)
    IN  [i \in 1 .. Len(keys) |-> <<keys[i], from_persisted(tbl[keys[i]])>>]

RECURSIVE MapOf(_, _)
MapOf(map, entries) ==
    IF entries = <<>> THEN map
    ELSE MapOf(Put(map, Head(entries)[1], Head(entries)[2]), Tail(entries))

\* Store::from_entries: the key -> Entry map
from_entries(entries) == MapOf(EmptyTable, entries)

(***************************************************************************)
(* db.rs: opening the database file.  The header of the file carries the   *)
(* schema version (PRAGMA user_version) and the journal mode, which        *)
(* SQLite stores in the file and keeps across connections; kv tells        *)
(* whether sqlite_master lists a table named kv.                           *)
(***************************************************************************)
Header(user_version, journal_mode, kv) ==
    [user_version |-> user_version, journal_mode |-> journal_mode, kv |-> kv]

\* the file Connection::open creates when the path names none
EmptyFile == Header(0, "delete", FALSE)

Opened(res, file, tbl) == [res |-> res, file |-> file, tbl |-> tbl]

\* an initialize_schema that would bring a file of another version up to date
initialize_schema_migrating(file, tbl, ok) ==
    LET wal == [file EXCEPT !.journal_mode = "wal"]
    IN  IF wal.user_version = 0 /\ wal.kv THEN Opened("Legacy", wal, tbl)
        ELSE IF ~ok THEN Opened("Db", wal, tbl)
        ELSE Opened("ok", [wal EXCEPT !.kv = TRUE, !.user_version = SchemaVersion], tbl)

\* initialize_schema: the journal-mode pragma runs first, then the version is
\* read; `ok` tells whether the creating transaction commits
initialize_schema(file, tbl, ok) ==
    LET wal == [file EXCEPT !.journal_mode = "wal"]
    IN  IF wal.user_version = 0
        THEN IF wal.kv THEN Opened("Legacy", wal, tbl)
             ELSE IF ok
                  THEN Opened("ok", [wal EXCEPT !.kv = TRUE,
                                                !.user_version = SchemaVersion], tbl)
                  ELSE Opened("Db", wal, tbl)
        ELSE IF wal.user_version # SchemaVersion
             THEN Opened("SchemaMismatch", wal, tbl)
             ELSE Opened("ok", wal, tbl)

\* connect: `usable` tells whether the directory can be created and the file
\* opened; `file` is None when the path names no file yet
connect(file, tbl, usable, ok) ==
    IF ~usable THEN Opened("DbPath", file, tbl)
    ELSE LET opened == initialize_schema(IF IsSome(file) THEN file[1] ELSE EmptyFile,
                                         tbl, ok)
         IN  Opened(opened.res, Some(opened.file), opened.tbl)

(***************************************************************************)
(* store.rs: the Store with its sorted key list and its recent-history     *)
(* log.  The side file is a byte string, None when no file exists; the     *)
(* file system is taken to accept every write.                             *)
(***************************************************************************)
NewStore(entries, search_keys, recent, recent_capacity, recent_file) ==
    [entries |-> entries, search_keys |-> search_keys, recent |-> recent,
     recent_capacity |-> recent_capacity, recent_file |-> recent_file]

\* what an operation leaves behind: the Store and the side file
Left(s, file) == [store |-> s, file |-> file]

\* slice::binary_search on an ascending list: the position where key would go
Position(keys, key) == Cardinality({i \in DOMAIN keys : StrLess(keys[i], key)}) + 1

InsertAt(keys, position, key) ==
    SubSeq(keys, 1, position - 1) \o <<key>> \o SubSeq(keys, position, Len(keys))

RemoveAt(keys, position) ==
    SubSeq(keys, 1, position - 1) \o SubSeq(keys, position + 1, Len(keys))

RECURSIVE SortKeys(_)
\* Vec::sort: ascending, equal keys kept
SortKeys(keys) ==
    IF keys = <<>> THEN <<>>
    ELSE LET rest == SortKeys(Tail(keys))
         IN  InsertAt(rest, Position(rest, Head(keys)), Head(keys))

KeysOf(entries) == [i \in DOMAIN entries |-> entries[i][1]]

Retain(keys, kept) == SelectSeq(keys, LAMBDA k : k \in kept)

Without(keys, key) == SelectSeq(keys, LAMBDA k : k # key)

RECURSIVE Distinct(_)
\* the HashSet `seen`: the first occurrence of a key stays
Distinct(keys) ==
    IF keys = <<>> THEN <<>>
    ELSE LET init == Distinct(SubSeq(keys, 1, Len(keys) - 1))
         IN  IF keys[Len(keys)] \in Range(init) THEN init
             ELSE Append(init, keys[Len(keys)])

\* a truncate that would cut nothing
Untruncated(keys, n) == keys

\* VecDeque::truncate, Iterator::take: the first n keys
Truncate(keys, n) == SubSeq(keys, 1, IF n < Len(keys) THEN n ELSE Len(keys))

RECURSIVE Joined(_)
\* join("\n")
Joined(keys) ==
    IF keys = <<>> THEN <<>>
    ELSE IF Len(keys) = 1 THEN keys[1]
    ELSE keys[1] \o <<Ch.nl>> \o Joined(Tail(keys))

RECURSIVE Lines(_)
\* str::lines
Lines(contents) ==
    IF contents = <<>> THEN <<>>
    ELSE LET ends == {i \in DOMAIN contents : contents[i] = Ch.nl}
             n == IF ends = {} THEN Len(contents) + 1
                  ELSE CHOOSE i \in ends : \A j \in ends : i <= j
         IN  <<SubSeq(contents, 1, n - 1)>> \o Lines(SubSeq(contents, n + 1, Len(contents)))

Store_from_entries(entries) ==
    NewStore(from_entries(entries), SortKeys(KeysOf(entries)), <<>>, RECENT_CAPACITY, None)

Store_insert(s, key, entry) ==
    [s EXCEPT !.search_keys = IF key \notin DOMAIN s.entries /\ key \notin Range(@)
                              THEN InsertAt(@, Position(@, key), key)
                              ELSE @,
              !.entries = Put(@, key, entry)]

persist_recent(s, file) ==
    IF ~IsSome(s.recent_file) THEN file
    ELSE Some(Joined(Truncate(s.recent, s.recent_capacity)))

prune_recent(s, file) ==
    LET pruned == [s EXCEPT !.recent = Truncate(Distinct(Retain(@, DOMAIN s.entries)),
                                                 s.recent_capacity)]
    IN  IF s.recent = <<>> THEN Left(s, persist_recent(s, file))
        ELSE Left(pruned, persist_recent(pruned, file))

Store_remove(s, file, key) ==
    LET found == {i \in DOMAIN s.search_keys : s.search_keys[i] = key}
        removed == [s EXCEPT !.entries = Drop(@, {key}),
                             !.search_keys = IF found # {}
                                             THEN RemoveAt(@, CHOOSE i \in found : TRUE)
                                             ELSE Without(@, key),
                             !.recent = Without(@, key)]
    IN  IF key \in DOMAIN s.entries THEN prune_recent(removed, file) ELSE Left(s, file)

Store_reset(s, file, entries) ==
    prune_recent([s EXCEPT !.entries = from_entries(entries),
                           !.search_keys = SortKeys(KeysOf(entries)),
                           !.recent = <<>>],
                 file)

Store_ordered(s) ==
    LET present == Retain(s.search_keys, DOMAIN s.entries)
    IN  [i \in DOMAIN present |-> <<present[i], s.entries[present[i]]>>]

\* a record_access that would log the key whether or not it is cached
record_access_any(s, file, key) ==
    LET logged == [s EXCEPT !.recent = Truncate(<<key>> \o Without(@, key),
                                                 s.recent_capacity)]
    IN  Left(logged, persist_recent(logged, file))

\* a record_access that would log the key behind the others
record_access_last(s, file, key) ==
    LET logged == [s EXCEPT !.recent = Truncate(Without(@, key) \o <<key>>,
                                                 s.recent_capacity)]
    IN  IF key \notin DOMAIN s.entries THEN Left(s, file)
        ELSE Left(logged, persist_recent(logged, file))

record_access(s, file, key) ==
    LET logged == [s EXCEPT !.recent = Truncate(<<key>> \o Without(@, key),
                                                 s.recent_capacity)]
    IN  IF key \notin DOMAIN s.entries THEN Left(s, file)
        ELSE Left(logged, persist_recent(logged, file))

\* a load_recent_history that would stop reading at `capacity` keys
load_recent_history_capped(file, capacity) ==
    IF capacity = 0 \/ ~IsSome(file) THEN <<>>
    ELSE LET lines == Lines(file[1])
             trimmed == [i \in DOMAIN lines |-> Trim(lines[i])]
         IN  Truncate(Distinct(SelectSeq(trimmed, LAMBDA k : k # <<>>)), capacity)

load_recent_history(file, capacity) ==
    IF capacity = 0 \/ ~IsSome(file) THEN <<>>
    ELSE LET lines == Lines(file[1])
             trimmed == [i \in DOMAIN lines |-> Trim(lines[i])]
         IN  Distinct(SelectSeq(trimmed, LAMBDA k : k # <<>>))

RecentConfig_new(capacity) == IF capacity < 1 THEN 1 ELSE capacity

RecentPath == "recent"

enable_recent_history(s, file, capacity) ==
    prune_recent([s EXCEPT !.recent_capacity = capacity,
                           !.recent_file = Some(RecentPath),
                           !.recent = load_recent_history(file, capacity)],
                 file)

(***************************************************************************)
(* Inputs.                                                                 *)
(***************************************************************************)
Values == {"1", "2"}

TagX == <<Ch.x>>
TagY == <<Ch.y>>

Fracs == {0, 50, 55}

Instants == {[t |-> t, f |-> f] : t \in StartTick .. MaxTick, f \in Fracs}

Stamp(i, f) == [t |-> StartTick + i, f |-> f]

\* the entries handed to the Database operations directly
DbEntries ==
    {with_timestamps(p[1], p[2], c, Stamp(1, 55), x) :
        p \in {<<"1", <<>>>>, <<"2", <<TagX, TagY>>>>},
        c \in {Stamp(0, 0), Stamp(0, 50)},
        x \in {None, Some(Stamp(1, 50)), Some(Stamp(2, 0))}}

ReplaceEntries ==
    {with_timestamps("2", <<TagX>>, Stamp(0, 55), Stamp(1, 0), x) :
        x \in {None, Some(Stamp(1, 50))}}

\* the readings of Utc::now() at which the sweep is run directly: the thresholds
\* they give lie around the expiries of DbEntries
SweepInstants ==
    {[t |-> StartTick + GraceHours * TicksPerHour + i, f |-> f] : i \in 1 .. 2, f \in Fracs}

\* the entry lists handed to replace_all: one entry per key, as import (a BTreeMap)
\* and the tag handlers (the rows of load_entries) build them
ReplaceInputs ==
    {<<>>}
    \cup {<<<<k, e>>>> : k \in Keys, e \in ReplaceEntries}
    \cup {<<<<ks[1], e1>>, <<ks[2], e2>>>> :
            ks \in {p \in Keys \X Keys : p[1] # p[2]},
            e1 \in ReplaceEntries, e2 \in ReplaceEntries}

ListKeys(entries) == {entries[i][1] : i \in DOMAIN entries}

\* what a reader gets: the key -> Entry map of load_entries
Loaded(tbl) == from_entries(load_entries(tbl))

NoKey == <<>>

Op(op, key, res, had, n, arg) ==
    [op |-> op, key |-> key, res |-> res, had |-> had, n |-> n, arg |-> arg]

(***************************************************************************)
(* SpecDb: the Database operations applied, in any order and with any      *)
(* arguments, to one table.  last records the operation just applied: its  *)
(* name, key, result, whether the key had a row before it (for replace_all *)
(* and the sweep: whether a row was removed), a count (entries supplied,   *)
(* rows deleted) and its argument (the entry, the entry list, the reading  *)
(* of Utc::now()).                                                         *)
(***************************************************************************)
InitDb ==
    /\ listener = "running"
    /\ stream = None
    /\ db = EmptyTable
    /\ cache = EmptyTable
    /\ now = Stamp(0, 0)
    /\ last = Op("init", NoKey, "ok", FALSE, 0, None)
    /\ tx = None
    /\ lastCleanup = None
    /\ steps = 0
    /\ meta = Some(Header(SchemaVersion, "wal", TRUE))
    /\ index = Store_from_entries(<<>>)
    /\ recentFile = None

DbUpsert(k, e) ==
    /\ db' = upsert_entry(db, k, e)
    /\ last' = Op("upsert", k, "ok", k \in DOMAIN db, 0, e)
    /\ UNCHANGED <<stream, listener, meta, index, recentFile, cache, now, tx, lastCleanup, steps>>

DbDelete(k) ==
    /\ db' = delete_entry(db, k).tbl
    /\ last' = Op("delete", k, delete_entry(db, k).res, k \in DOMAIN db, 0, None)
    /\ UNCHANGED <<stream, listener, meta, index, recentFile, cache, now, tx, lastCleanup, steps>>

DbReplaceAll(entries) ==
    /\ db' = replace_all(db, entries)
    /\ last' = Op("replace_all", NoKey, "ok", DOMAIN db \ ListKeys(entries) # {},
                  Len(entries), entries)
    /\ UNCHANGED <<stream, listener, meta, index, recentFile, cache, now, tx, lastCleanup, steps>>

DbSweep(t) ==
    /\ db' = cleanup_expired_entries(db, t).tbl
    /\ last' = Op("sweep", NoKey, "ok", db' # db,
                  cleanup_expired_entries(db, t).deleted, t)
    /\ UNCHANGED <<stream, listener, meta, index, recentFile, cache, now, tx, lastCleanup, steps>>

NextDb ==
    \/ \E k \in Keys, e \in DbEntries : DbUpsert(k, e)
    \/ \E k \in Keys : DbDelete(k)
    \/ \E entries \in ReplaceInputs : DbReplaceAll(entries)
    \/ \E t \in SweepInstants : DbSweep(t)

SpecDb == InitDb /\ [][NextDb]_vars

(***************************************************************************)
(* Claims about the Database operations (checked under SpecDb).            *)
(***************************************************************************)
SameButCreated(got, e) ==
    /\ got.value = e.value
    /\ got.tags = e.tags
    /\ got.updated_at = e.updated_at
    /\ got.expires_at = e.expires_at

\* C4, as stated: for every key k and entry e, stored before or not, upsert(k, e)
\* followed by load_all returns for k an entry equal to e in value, tags,
\* created_at, updated_at and expires_at.
C4_RoundTripAnyKey ==
    last.op = "upsert" => (last.key \in DOMAIN db /\ Loaded(db)[last.key] = last.arg)

\* C4, amended: upsert(k, e) followed by load_all returns for k an entry equal to e
\* in value, tags, updated_at and expires_at; its created_at is that of e when k
\* had no row, and the created_at of the existing row otherwise.
C4_RoundTrip ==
    [][last'.op = "upsert" =>
         LET k == last'.key
             e == last'.arg
         IN  /\ k \in DOMAIN db'
             /\ SameButCreated(Loaded(db')[k], e)
             /\ Loaded(db')[k].created_at =
                  IF k \in DOMAIN db THEN Loaded(db)[k].created_at ELSE e.created_at]_vars

\* an upsert has overwritten an existing row, leaving a fractional expiry on it
C4_Witness ==
    /\ last.op = "upsert"
    /\ last.had
    /\ last.key \in DOMAIN db
    /\ db[last.key].expires_at = Some(ToRfc3339(Stamp(1, 50)))

\* C5: replace_all(entries) leaves exactly the supplied entries, with the supplied
\* field values, and none of the prior rows, whatever the table held before; with
\* an empty list the table is empty afterwards.
C5_ReplaceAllExact ==
    last.op = "replace_all" =>
        /\ DOMAIN db = ListKeys(last.arg)
        /\ Cardinality(DOMAIN db) = Len(last.arg)
        /\ \A i \in DOMAIN last.arg : Loaded(db)[last.arg[i][1]] = last.arg[i][2]
        /\ (last.arg = <<>> => db = EmptyTable)

\* replace_all with a single entry has removed a prior row of another key
C5_Witness ==
    /\ last.op = "replace_all"
    /\ last.had
    /\ last.n = 1
    /\ Cardinality(DOMAIN db) = 1

\* C7: delete(key) on a key with no row fails with NotFound and leaves the table
\* unchanged; on a key with a row it removes that row only; and a second delete of
\* the same key, right after a successful one, fails with NotFound.
C7_DeleteNotFound ==
    [][last'.op = "delete" =>
         LET k == last'.key
         IN  /\ k \notin DOMAIN db => (last'.res = "NotFound" /\ db' = db)
             /\ k \in DOMAIN db => (last'.res = "ok" /\ db' = Drop(db, {k}))
             /\ (last.op = "delete" /\ last.res = "ok" /\ last.key = k)
                   => last'.res = "NotFound"]_vars

\* a delete has failed with NotFound while another key's row stays in the table
C7_Witness ==
    /\ last.op = "delete"
    /\ last.res = "NotFound"
    /\ ~last.had
    /\ db # EmptyTable

\* the keys whose expiry, as a time, is at or before now minus the grace window
DueKeys(tbl, utcNow) ==
    {k \in DOMAIN tbl :
        /\ IsSome(Loaded(tbl)[k].expires_at)
        /\ DtLeq(Loaded(tbl)[k].expires_at[1], MinusHours(utcNow, GraceHours))}

\* C8: sweep_expired removes exactly the rows whose expires_at is at or before
\* (now - grace), returns their number, leaves every other row unchanged in every
\* field, and a second sweep at the same instant removes nothing and returns 0.
C8_SweepExact ==
    [][last'.op = "sweep" =>
         LET t == last'.arg
         IN  /\ DOMAIN db' = DOMAIN db \ DueKeys(db, t)
             /\ \A k \in DOMAIN db' : db'[k] = db[k]
             /\ last'.n = Cardinality(DueKeys(db, t))
             /\ cleanup_expired_entries(db', t).tbl = db'
             /\ cleanup_expired_entries(db', t).deleted = 0]_vars

\* a sweep has removed one row and kept another that carries an expiry
C8_Witness ==
    /\ last.op = "sweep"
    /\ last.n = 1
    /\ \E k \in DOMAIN db : IsSome(db[k].expires_at)

(***************************************************************************)
(* The clock.  Every operation that calls Utc::now() reads an instant      *)
(* later than the last one read; the model offers the next instant and the *)
(* instant one hour on.                                                    *)
(***************************************************************************)
Least(S) == CHOOSE m \in S : \A o \in S : m <= o

\* the next instant
Soon(n) ==
    IF \E f \in Fracs : f > n.f
    THEN {[t |-> n.t, f |-> Least({f \in Fracs : f > n.f})]}
    ELSE IF n.t < MaxTick THEN {[t |-> n.t + 1, f |-> Least(Fracs)]}
    ELSE {}

Readings(n) == Soon(n) \cup ({PlusHours(n, 1)} \cap Instants)

\* the model follows a process for MaxSteps operations
Step == steps < MaxSteps /\ steps' = steps + 1

(***************************************************************************)
(* lib.rs: the CLI path.  run() opens the database, sweeps, loads the      *)
(* cache and executes one command; the model lets the process execute any  *)
(* number of commands on the cache it loaded, so that a sequence of        *)
(* commands on one cache is covered as well.  `ok` is whether the store    *)
(* operation of the command commits: a failed transaction is rolled back.  *)
(***************************************************************************)
Get(map, key) == IF key \in DOMAIN map THEN Some(map[key]) ELSE None

\* the raw tag lists a command line or a request body may carry
TagInputs == {<<>>, <<TagX>>, <<<<Ch.sp, Ch.y>>, TagX, <<Ch.sp>>, TagX>>}

\* run(), up to the command dispatch: connect, cleanup_expired_entries,
\* load_entries, Store::from_entries
CliOpen(t) ==
    /\ Step
    /\ db' = cleanup_expired_entries(db, t).tbl
    /\ cache' = from_entries(load_entries(db'))
    /\ now' = t
    /\ last' = Op("open", NoKey, "ok", db' # db, cleanup_expired_entries(db, t).deleted, t)
    /\ UNCHANGED <<stream, listener, meta, index, recentFile, tx, lastCleanup>>

\* the entry handle_add builds from the cached entry of the key
AddEntry(map, key, value, tags, t) ==
    LET existing == Get(map, key)
        kept == IF tags = <<>>
                THEN (IF IsSome(existing) THEN existing[1].tags ELSE <<>>)
                ELSE normalize_tags(tags)
    IN  for_update(existing, value, kept, t)

\* a handle_add that would insert into the Store whatever upsert_entry returned
handle_add_cache_first(key, value, tags, t, ok) ==
    /\ db' = IF ok THEN upsert_entry(db, key, AddEntry(cache, key, value, tags, t)) ELSE db
    /\ cache' = Put(cache, key, AddEntry(cache, key, value, tags, t))
    /\ now' = t

\* handle_add: upsert_entry, and only after it returned Ok, Store::insert
handle_add(key, value, tags, t, ok) ==
    /\ db' = IF ok THEN upsert_entry(db, key, AddEntry(cache, key, value, tags, t)) ELSE db
    /\ cache' = IF ok THEN Put(cache, key, AddEntry(cache, key, value, tags, t)) ELSE cache
    /\ now' = t

CliAdd(key, value, tags, t, ok) ==
    /\ Step
    /\ handle_add(key, value, tags, t, ok)
    /\ last' = Op("add", key, IF ok THEN "ok" ELSE "Db", key \in DOMAIN cache, 0, t)
    /\ UNCHANGED <<stream, listener, meta, index, recentFile, tx, lastCleanup>>

\* handle_put_file: validate_markdown_path, read_to_string, then handle_add; `file`
\* is None when the path is refused or unreadable, Some(contents) otherwise
CliPutFile(key, file, tags, t, ok) ==
    /\ Step
    /\ IF IsSome(file)
       THEN handle_add(key, file[1], tags, t, ok)
       ELSE UNCHANGED <<db, cache, now>>
    /\ last' = Op("put_file", key,
                  IF ~IsSome(file) THEN "InvalidInput" ELSE IF ok THEN "ok" ELSE "Db",
                  key \in DOMAIN cache, 0, t)
    /\ UNCHANGED <<stream, listener, meta, index, recentFile, tx, lastCleanup>>

\* handle_remove: NotFound unless cached, then delete_entry, then Store::remove
CliRemove(key, ok) ==
    LET cached == key \in DOMAIN cache
        deleted == delete_entry(db, key)
        done == cached /\ ok /\ deleted.res = "ok"
    IN  /\ Step
        /\ db' = IF done THEN deleted.tbl ELSE db
        /\ cache' = IF done THEN Drop(cache, {key}) ELSE cache
        /\ last' = Op("remove", key,
                      IF ~cached THEN "NotFound"
                      ELSE IF ~ok THEN "Db" ELSE deleted.res,
                      cached, 0, None)
        /\ UNCHANGED <<stream, listener, meta, index, recentFile, now, tx, lastCleanup>>

\* an import file: None when it is not valid JSON, Some(map) otherwise, the map
\* as the sequence of its (key, ImportEntry) pairs in key order
ImportItem(value, tags, created_at, updated_at, expires_at) ==
    [value |-> value, tags |-> tags, created_at |-> created_at,
     updated_at |-> updated_at, expires_at |-> expires_at]

ImportFiles ==
    {None, Some(<<>>)}
    \cup {Some(<<<<<<Ch.a>>, ImportItem("1", <<TagY, TagX, TagY>>, None, None, x)>>>>) :
            x \in {None, Some(ToRfc3339Zulu(Stamp(1, 50)))}}
    \cup {Some(<<<<<<Ch.a>>, ImportItem("2", <<>>, Some(ToRfc3339(Stamp(0, 55))),
                                        Some(ToRfc3339Zulu(Stamp(1, 0))), None)>>,
                 <<<<Ch.b>>, ImportItem("1", <<TagX>>, None, None, None)>>>>)}

\* the entry handle_import builds from one ImportEntry
ImportedEntry(item, t) ==
    from_persisted(
        [value |-> item.value,
         tags |-> tags_json(normalize_tags(item.tags)),
         created_at |-> IF IsSome(item.created_at) THEN item.created_at[1] ELSE ToRfc3339(t),
         updated_at |-> IF IsSome(item.updated_at) THEN item.updated_at[1] ELSE ToRfc3339(t),
         expires_at |-> item.expires_at])

ImportedEntries(items, t) ==
    [i \in DOMAIN items |-> <<items[i][1], ImportedEntry(items[i][2], t)>>]

\* handle_import: parse, replace_all, and only after it returned Ok, Store::reset
CliImport(file, t, ok) ==
    LET done == IsSome(file) /\ ok
    IN  /\ Step
        /\ db' = IF done THEN replace_all(db, ImportedEntries(file[1], t)) ELSE db
        /\ cache' = IF done THEN from_entries(ImportedEntries(file[1], t)) ELSE cache
        /\ now' = t
        /\ last' = Op("import", NoKey,
                      IF ~IsSome(file) THEN "DataFormat" ELSE IF ok THEN "ok" ELSE "Db",
                      db # EmptyTable, 0, t)
        /\ UNCHANGED <<stream, listener, meta, index, recentFile, tx, lastCleanup>>

NextCli ==
    \/ \E t \in Readings(now) : CliOpen(t)
    \/ \E k \in Keys, v \in Values, tg \in TagInputs, t \in Soon(now), ok \in BOOLEAN :
          CliAdd(k, v, tg, t, ok)
    \/ \E k \in Keys, file \in {None, Some("2")}, t \in Soon(now), ok \in BOOLEAN :
          CliPutFile(k, file, <<>>, t, ok)
    \/ \E k \in Keys, ok \in BOOLEAN : CliRemove(k, ok)
    \/ \E file \in ImportFiles, t \in Soon(now), ok \in BOOLEAN : CliImport(file, t, ok)

SpecCli == InitDb /\ [][NextCli]_vars

\* C1: on the CLI path, after any sequence of add, put-file, remove and import
\* commands, each succeeding or failing at its store operation, the cache's
\* key -> entry map equals the rows of the Durable Store.
\* The cache is modified only after the store commit has succeeded, so a command
\* whose store operation fails leaves both unchanged.
C1_CacheMirrorsStore ==
    /\ [](cache = Loaded(db))
    /\ [][last'.res # "ok" => (db' = db /\ cache' = cache)]_vars

\* a command whose store operation failed has left a non-empty store and cache alone
C1_Witness ==
    /\ last.op \in {"add", "put_file", "remove", "import"}
    /\ last.res = "Db"
    /\ db # EmptyTable
    /\ cache = Loaded(db)

(***************************************************************************)
(* SpecTx: the Database operations statement by statement.  Each opens a   *)
(* transaction (conn.transaction()), executes its statements on the        *)
(* transaction's view of the table, and commits; an error return drops the *)
(* transaction, which rolls it back, and so does a crash of the process.   *)
(* db is the committed table, the one other connections read.              *)
(***************************************************************************)
TxEntries ==
    {with_timestamps("1", <<TagX>>, Stamp(0, 0), Stamp(0, 50), x) :
        x \in {None, Some(Stamp(1, 0))}}

TxOp(name, key, entry, entries, at) ==
    [name |-> name, key |-> key, entry |-> entry, entries |-> entries, at |-> at]

TxOps ==
    {TxOp("upsert", k, Some(e), <<>>, None) : k \in Keys, e \in TxEntries}
    \cup {TxOp("delete", k, None, <<>>, None) : k \in Keys}
    \cup {TxOp("replace_all", NoKey, None, entries, None) : entries \in ReplaceInputs}
    \cup {TxOp("sweep", NoKey, None, <<>>, Some(t)) : t \in SweepInstants}

\* the SQL statements an operation executes between BEGIN and COMMIT
Statements(op) ==
    CASE op.name = "upsert" -> <<[s |-> "upsert", key |-> op.key, entry |-> op.entry[1]]>>
      [] op.name = "delete" -> <<[s |-> "delete", key |-> op.key]>>
      [] op.name = "replace_all" ->
            <<[s |-> "delete_all"]>>
            \o [i \in DOMAIN op.entries |->
                  [s |-> "upsert", key |-> op.entries[i][1], entry |-> op.entries[i][2]]]
      [] op.name = "sweep" -> <<[s |-> "sweep", threshold |-> cleanup_threshold(op.at[1])]>>

\* the effect of one statement on a table
Exec(tbl, stmt) ==
    CASE stmt.s = "upsert" -> execute_upsert(tbl, stmt.key, stmt.entry)
      [] stmt.s = "delete" -> Drop(tbl, {stmt.key})
      [] stmt.s = "delete_all" -> Drop(tbl, DOMAIN tbl)
      [] stmt.s = "sweep" -> Drop(tbl, ExpiredKeys(tbl, stmt.threshold))

\* the rows a statement changes (tx.execute's return value)
Affected(tbl, stmt) ==
    CASE stmt.s = "upsert" -> 1
      [] stmt.s = "delete" -> IF stmt.key \in DOMAIN tbl THEN 1 ELSE 0
      [] stmt.s = "delete_all" -> Cardinality(DOMAIN tbl)
      [] stmt.s = "sweep" -> Cardinality(ExpiredKeys(tbl, stmt.threshold))

\* the operation as a whole, as the handlers use it
Committed(tbl, op) ==
    CASE op.name = "upsert" -> upsert_entry(tbl, op.key, op.entry[1])
      [] op.name = "delete" -> delete_entry(tbl, op.key).tbl
      [] op.name = "replace_all" -> replace_all(tbl, op.entries)
      [] op.name = "sweep" -> cleanup_expired_entries(tbl, op.at[1]).tbl

\* statements run without a transaction: each commits by itself
BeginAutocommit(tbl, op) ==
    [op |-> op, pre |-> tbl, work |-> tbl, todo |-> Statements(op), auto |-> TRUE]

\* let tx = self.conn.transaction()?
Begin(tbl, op) ==
    [op |-> op, pre |-> tbl, work |-> tbl, todo |-> Statements(op), auto |-> FALSE]

TxBegin(op) ==
    /\ tx = None
    /\ tx' = Some(Begin(db, op))
    /\ last' = Op("begin", op.key, "ok", FALSE, 0, None)
    /\ UNCHANGED <<stream, listener, meta, index, recentFile, db, cache, now, lastCleanup, steps>>

\* tx.execute(...)?; delete_entry returns NotFound, without committing, when its
\* DELETE affected no row.  Outside a transaction a statement commits by itself.
TxStatement ==
    /\ IsSome(tx)
    /\ tx[1].todo # <<>>
    /\ LET t == tx[1]
           stmt == Head(t.todo)
           missing == t.op.name = "delete" /\ Affected(t.work, stmt) = 0
       IN  /\ tx' = IF missing THEN None
                    ELSE Some([t EXCEPT !.work = Exec(t.work, stmt), !.todo = Tail(t.todo)])
           /\ db' = IF t.auto THEN Exec(db, stmt) ELSE db
           /\ last' = Op("execute", t.op.key, IF missing THEN "NotFound" ELSE "ok",
                         FALSE, Affected(t.work, stmt), None)
    /\ UNCHANGED <<stream, listener, meta, index, recentFile, cache, now, lastCleanup, steps>>

\* tx.commit()?
TxCommit ==
    /\ IsSome(tx)
    /\ tx[1].todo = <<>>
    /\ db' = tx[1].work
    /\ tx' = None
    /\ last' = Op("commit", tx[1].op.key, "ok", FALSE, 0, None)
    /\ UNCHANGED <<stream, listener, meta, index, recentFile, cache, now, lastCleanup, steps>>

\* an error inside the transaction (`?` returns, the Transaction is dropped), or a
\* crash of the process: the transaction is rolled back
TxAbort(why) ==
    /\ IsSome(tx)
    /\ tx' = None
    /\ last' = Op("abort", tx[1].op.key, why, FALSE, 0, None)
    /\ UNCHANGED <<stream, listener, meta, index, recentFile, db, cache, now, lastCleanup, steps>>

\* load_entries on another connection, at any moment
TxRead ==
    /\ last' = Op("load", NoKey, "ok", IsSome(tx), 0, load_entries(db))
    /\ UNCHANGED <<stream, listener, meta, index, recentFile, db, cache, now, tx, lastCleanup, steps>>

NextTx ==
    \/ \E op \in TxOps : TxBegin(op)
    \/ TxStatement
    \/ TxCommit
    \/ \E why \in {"Db", "crash"} : TxAbort(why)
    \/ TxRead

SpecTx == InitDb /\ [][NextTx]_vars

\* C6: each Durable Store mutation takes effect atomically.  The committed table
\* changes only at the commit of a transaction, and then to the complete result of
\* the operation; an error or a crash at any step inside the operation leaves it as
\* it was; and a load_all at any moment, also in the middle of a transaction,
\* observes the complete pre-state or the complete post-state.
C6_Atomic ==
    /\ [][db' # db =>
            /\ IsSome(tx)
            /\ tx[1].todo = <<>>
            /\ db = tx[1].pre
            /\ db' = Committed(db, tx[1].op)]_vars
    /\ [][last'.op = "abort" => db' = db]_vars
    /\ []((last.op = "load" /\ IsSome(tx)) =>
            last.arg \in {load_entries(tx[1].pre),
                          load_entries(Committed(tx[1].pre, tx[1].op))})

\* a load_all has run inside a replace_all transaction that has deleted the old
\* rows and inserted one of its two new ones
C6_Witness ==
    /\ last.op = "load"
    /\ IsSome(tx)
    /\ tx[1].op.name = "replace_all"
    /\ Len(tx[1].todo) = 1
    /\ tx[1].pre # EmptyTable
    /\ tx[1].work # tx[1].pre

(***************************************************************************)
(* lib.rs: the HTTP mutation handlers, as functions from the table and the *)
(* request to the handler's result and the table it leaves.  utcNow is the *)
(* reading of Utc::now() during the request (the handlers read it more     *)
(* than once within one request; the readings are taken as one instant).   *)
(* A result of "panic" is a handler that did not return: chrono panicked.  *)
(***************************************************************************)
Outcome(res, tbl) == [res |-> res, tbl |-> tbl]

handle_api_record_upsert(tbl, rawKey, value, rawTags, ttl_minutes, utcNow) ==
    LET key == Trim(rawKey)
        tags == normalize_tags(rawTags)
        existing == Get(Loaded(tbl), key)
        fresh == for_update(existing, value, tags, utcNow)
        entry == IF IsSome(ttl_minutes)
                 THEN set_ttl_minutes(fresh, ttl_minutes[1], utcNow)
                 ELSE fresh
    IN  IF key = <<>> THEN Outcome("InvalidInput", tbl)
        ELSE IF IsSome(ttl_minutes) /\ ttl_minutes[1] = 0 THEN Outcome("InvalidInput", tbl)
        ELSE IF IsSome(ttl_minutes) /\ ~SpanOk(AsSigned(ttl_minutes[1]))
             THEN Outcome("panic", tbl)
        ELSE Outcome("ok", upsert_entry(tbl, key, entry))

handle_api_record_delete(tbl, rawKey) ==
    LET key == Trim(rawKey)
    IN  IF key = <<>> THEN Outcome("InvalidInput", tbl) ELSE delete_entry(tbl, key)

\* a tags/add that would write the entry even when it carries the tag already
handle_api_record_tag_add_always(tbl, rawKey, rawTag, utcNow) ==
    LET key == Trim(rawKey)
        tag == Trim(rawTag)
        existing == Get(Loaded(tbl), key)
        tags == normalize_tags(Append(existing[1].tags, tag))
    IN  IF key = <<>> \/ tag = <<>> THEN Outcome("InvalidInput", tbl)
        ELSE IF ~IsSome(existing) THEN Outcome("NotFound", tbl)
        ELSE Outcome("ok", upsert_entry(tbl, key,
                             for_update(existing, existing[1].value, tags, utcNow)))

handle_api_record_tag_add(tbl, rawKey, rawTag, utcNow) ==
    LET key == Trim(rawKey)
        tag == Trim(rawTag)
        existing == Get(Loaded(tbl), key)
        tags == normalize_tags(Append(existing[1].tags, tag))
    IN  IF key = <<>> \/ tag = <<>> THEN Outcome("InvalidInput", tbl)
        ELSE IF ~IsSome(existing) THEN Outcome("NotFound", tbl)
        ELSE IF tags = existing[1].tags THEN Outcome("ok", tbl)
        ELSE Outcome("ok", upsert_entry(tbl, key,
                             for_update(existing, existing[1].value, tags, utcNow)))

\* a tags/remove that would write the entry before it looks at what was removed
handle_api_record_tag_remove_eager(tbl, rawKey, rawTag, utcNow) ==
    LET key == Trim(rawKey)
        tag == Trim(rawTag)
        existing == Get(Loaded(tbl), key)
        tags == SelectSeq(existing[1].tags, LAMBDA candidate : candidate # tag)
        written == upsert_entry(tbl, key,
                                for_update(existing, existing[1].value,
                                           normalize_tags(tags), utcNow))
    IN  IF key = <<>> \/ tag = <<>> THEN Outcome("InvalidInput", tbl)
        ELSE IF ~IsSome(existing) THEN Outcome("NotFound", tbl)
        ELSE IF Len(tags) = Len(existing[1].tags) THEN Outcome("NotFound", written)
        ELSE Outcome("ok", written)

handle_api_record_tag_remove(tbl, rawKey, rawTag, utcNow) ==
    LET key == Trim(rawKey)
        tag == Trim(rawTag)
        existing == Get(Loaded(tbl), key)
        tags == SelectSeq(existing[1].tags, LAMBDA candidate : candidate # tag)
    IN  IF key = <<>> \/ tag = <<>> THEN Outcome("InvalidInput", tbl)
        ELSE IF ~IsSome(existing) THEN Outcome("NotFound", tbl)
        ELSE IF Len(tags) = Len(existing[1].tags) THEN Outcome("NotFound", tbl)
        ELSE Outcome("ok", upsert_entry(tbl, key,
                             for_update(existing, existing[1].value,
                                        normalize_tags(tags), utcNow)))

handle_api_record_ttl_extend(tbl, rawKey, ttl_minutes, utcNow) ==
    LET key == Trim(rawKey)
        existing == Get(Loaded(tbl), key)
        entry == for_update(existing, existing[1].value, existing[1].tags, utcNow)
    IN  IF key = <<>> \/ ttl_minutes = 0 THEN Outcome("InvalidInput", tbl)
        ELSE IF ~IsSome(existing) THEN Outcome("NotFound", tbl)
        ELSE IF ~SpanOk(AsSigned(ttl_minutes)) THEN Outcome("panic", tbl)
        ELSE Outcome("ok", upsert_entry(tbl, key,
                             extend_ttl_minutes(entry, ttl_minutes, utcNow)))

\* next_tags of the two tag handlers: the tag replaced by `to` (rename, Some(to)),
\* or filtered out (delete, None)
NextTags(tags, tag, to) ==
    IF IsSome(to)
    THEN [i \in DOMAIN tags |-> IF tags[i] = tag THEN to[1] ELSE tags[i]]
    ELSE SelectSeq(tags, LAMBDA candidate : candidate # tag)

\* a loop of the tag handlers that would store next_tags as they are
Retagged_raw(entries, tag, to, utcNow) ==
    [i \in DOMAIN entries |->
        LET entry == entries[i][2]
        IN  <<entries[i][1],
              IF tag \in Range(entry.tags)
              THEN for_update(Some(entry), entry.value, NextTags(entry.tags, tag, to), utcNow)
              ELSE entry>>]

\* the loop of the two tag handlers over load_entries(): the entries that carry
\* the tag are rebuilt by for_update with their tag list rewritten, the others are
\* passed on as loaded
\* a rewrite that would pass every entry through for_update
Retagged_all(entries, tag, to, utcNow) ==
    [i \in DOMAIN entries |->
        LET entry == entries[i][2]
        IN  <<entries[i][1],
              for_update(Some(entry), entry.value,
                         normalize_tags(NextTags(entry.tags, tag, to)), utcNow)>>]

Retagged(entries, tag, to, utcNow) ==
    [i \in DOMAIN entries |->
        LET entry == entries[i][2]
        IN  <<entries[i][1],
              IF tag \in Range(entry.tags)
              THEN for_update(Some(entry), entry.value,
                              normalize_tags(NextTags(entry.tags, tag, to)), utcNow)
              ELSE entry>>]

Changed(entries, tag) ==
    Cardinality({i \in DOMAIN entries : tag \in Range(entries[i][2].tags)})

handle_api_tag_rename(tbl, rawFrom, rawTo, utcNow) ==
    LET from == Trim(rawFrom)
        to == Trim(rawTo)
        entries == load_entries(tbl)
    IN  IF from = <<>> \/ to = <<>> \/ from = to THEN Outcome("InvalidInput", tbl)
        ELSE IF Changed(entries, from) = 0 THEN Outcome("NotFound", tbl)
        ELSE Outcome("ok", replace_all(tbl, Retagged(entries, from, Some(to), utcNow)))

handle_api_tag_delete(tbl, rawTag, utcNow) ==
    LET target == Trim(rawTag)
        entries == load_entries(tbl)
    IN  IF target = <<>> THEN Outcome("InvalidInput", tbl)
        ELSE IF Changed(entries, target) = 0 THEN Outcome("NotFound", tbl)
        ELSE Outcome("ok", replace_all(tbl, Retagged(entries, target, None, utcNow)))

\* run() with Command::Add, the whole process: connect, cleanup_expired_entries (at
\* the reading sweptAt), load_entries, Store::from_entries, handle_add
run_add(tbl, key, value, tags, sweptAt, utcNow) ==
    LET swept == cleanup_expired_entries(tbl, sweptAt).tbl
        store == from_entries(load_entries(swept))
    IN  Outcome("ok", upsert_entry(swept, key, AddEntry(store, key, value, tags, utcNow)))

\* Store::ordered: the entries in key order
\* an ordering that would follow the keys downwards
ordered_desc(map) ==
    LET keys == SortedSeq(DOMAIN map)
    IN  [i \in 1 .. Len(keys) |-> <<keys[Len(keys) + 1 - i], map[keys[Len(keys) + 1 - i]]>>]

ordered(map) ==
    LET keys == SortedSeq(DOMAIN map)
    IN  [i \in 1 .. Len(keys) |-> <<keys[i], map[keys[i]]>>]

HtmlEntry(key, entry) ==
    [key |-> key, value |-> entry.value, tags |-> entry.tags,
     created_at |-> ToRfc3339(entry.created_at),
     updated_at |-> ToRfc3339(entry.updated_at),
     expires_at |-> IF IsSome(entry.expires_at)
                    THEN Some(ToRfc3339(entry.expires_at[1]))
                    ELSE None]

\* serialize_html_records: the records of the JSON array, in order
serialize_html_records(map) ==
    [i \in DOMAIN ordered(map) |-> HtmlEntry(ordered(map)[i][1], ordered(map)[i][2])]

\* render_live_data: the body of GET /data
render_live_data(tbl) == serialize_html_records(Loaded(tbl))

(***************************************************************************)
(* SpecWrite: the write paths on one store, one request or command after   *)
(* the other.  last.arg is the request: its value, its tag list (for the   *)
(* tag handlers the tag, or <<from, to>>), its ttl_minutes, the reading of *)
(* the clock at the start-up sweep (CLI only) and the reading of the       *)
(* handler.                                                                *)
(***************************************************************************)
Req(value, tags, ttl, swept, t) ==
    [value |-> value, tags |-> tags, ttl |-> ttl, swept |-> swept, t |-> t]

\* the ttl_minutes value whose cast to i64 is -MaxSpan
WrapMinutes == 2 ^ MinuteBits - MaxSpan

TtlInputs == {None, Some(1), Some(WrapMinutes)}

TagAddInputs == {TagX, <<Ch.sp, Ch.y>>}

TagNames == {TagX, TagY}

Respond(op, key, out, arg) ==
    /\ Step
    /\ db' = out.tbl
    /\ now' = arg.t
    /\ last' = Op(op, key, out.res, key \in DOMAIN db, 0, arg)
    /\ UNCHANGED <<stream, listener, meta, index, recentFile, cache, tx, lastCleanup>>

HttpUpsert(key, value, tags, ttl, t) ==
    Respond("upsert", key, handle_api_record_upsert(db, key, value, tags, ttl, t),
            Req(value, tags, ttl, None, t))

HttpDelete(key) ==
    Respond("delete", key, handle_api_record_delete(db, key),
            Req("", <<>>, None, None, now))

HttpTagAdd(key, tag, t) ==
    Respond("tag_add", key, handle_api_record_tag_add(db, key, tag, t),
            Req("", <<tag>>, None, None, t))

HttpTagRemove(key, tag, t) ==
    Respond("tag_remove", key, handle_api_record_tag_remove(db, key, tag, t),
            Req("", <<tag>>, None, None, t))

HttpTtlExtend(key, minutes, t) ==
    Respond("ttl_extend", key, handle_api_record_ttl_extend(db, key, minutes, t),
            Req("", <<>>, Some(minutes), None, t))

HttpTagRename(from, to, t) ==
    Respond("tag_rename", NoKey, handle_api_tag_rename(db, from, to, t),
            Req("", <<from, to>>, None, None, t))

HttpTagDelete(tag, t) ==
    Respond("tag_delete", NoKey, handle_api_tag_delete(db, tag, t),
            Req("", <<tag>>, None, None, t))

\* a `kvstore add` process, from start to exit; its cache dies with it
CliRunAdd(key, value, tags, sweptAt, t) ==
    Respond("cli_add", key, run_add(db, key, value, tags, sweptAt, t),
            Req(value, tags, None, Some(sweptAt), t))

NextWrite ==
    \/ \E k \in Keys, v \in Values, tg \in TagInputs, ttl \in TtlInputs, t \in Soon(now) :
          HttpUpsert(k, v, tg, ttl, t)
    \/ \E k \in Keys : HttpDelete(k)
    \/ \E k \in Keys, tag \in TagAddInputs, t \in Soon(now) : HttpTagAdd(k, tag, t)
    \/ \E k \in Keys, tag \in TagNames, t \in Soon(now) : HttpTagRemove(k, tag, t)
    \/ \E k \in Keys, m \in {1, WrapMinutes}, t \in Soon(now) : HttpTtlExtend(k, m, t)
    \/ \E from \in TagNames, to \in TagNames, t \in Soon(now) : HttpTagRename(from, to, t)
    \/ \E tag \in TagNames, t \in Soon(now) : HttpTagDelete(tag, t)
    \/ \E k \in Keys, v \in Values, tg \in TagInputs, s \in Soon(now) :
          \E t \in Soon(s) : CliRunAdd(k, v, tg, s, t)

SpecWrite == InitDb /\ [][NextWrite]_vars

WriteOps ==
    {"cli_add", "upsert", "tag_add", "tag_remove", "ttl_extend", "tag_rename", "tag_delete"}

\* the table a write works on: for a CLI command, what its start-up sweep left
Found(tbl, op) ==
    IF op.op = "cli_add" THEN cleanup_expired_entries(tbl, op.arg.swept[1]).tbl ELSE tbl

\* whether the write op, if it succeeds, is applied to the entry of key k
Applies(op, k, entry) ==
    /\ op.res = "ok"
    /\ CASE op.op \in {"cli_add", "upsert", "tag_remove", "ttl_extend"} -> op.key = k
         [] op.op = "tag_add" -> op.key = k /\ Trim(op.arg.tags[1]) \notin Range(entry.tags)
         [] op.op \in {"tag_rename", "tag_delete"} -> op.arg.tags[1] \in Range(entry.tags)
         [] OTHER -> FALSE

\* C2: for every key and every write through any write path (CLI add, HTTP upsert,
\* tags/add, tags/remove, ttl/extend, tag rename, tag delete): an entry that the
\* write finds keeps its created_at; a write that is applied to the entry sets its
\* updated_at to the (later) time of the write, and no row changes without that;
\* expires_at changes only on an upsert that carries ttl_minutes and on ttl/extend,
\* and only for their key; and an entry the write creates gets the time of the
\* write as its created_at.
C2_CreatedAtStable ==
    [][last'.op \in WriteOps =>
         LET found == Found(db, last')
         IN  /\ \A k \in DOMAIN found \cap DOMAIN db' :
                  LET old == from_persisted(found[k])
                      new == from_persisted(db'[k])
                  IN  /\ new.created_at = old.created_at
                      /\ Applies(last', k, old) =>
                            (new.updated_at = last'.arg.t
                               /\ DtLess(old.updated_at, new.updated_at))
                      /\ db'[k] # found[k] => Applies(last', k, old)
                      /\ new.expires_at # old.expires_at =>
                            /\ last'.key = k
                            /\ last'.op \in {"upsert", "ttl_extend"}
                            /\ IsSome(last'.arg.ttl)
             /\ \A k \in DOMAIN db' \ DOMAIN found :
                  /\ last'.op \in {"cli_add", "upsert"}
                  /\ last'.key = k
                  /\ from_persisted(db'[k]).created_at = last'.arg.t]_vars

\* a tag rename has rewritten an entry that was created earlier, carries an expiry
\* and has been written in between
C2_Witness ==
    /\ last.op = "tag_rename"
    /\ last.res = "ok"
    /\ steps = MaxSteps
    /\ \E k \in DOMAIN db :
         /\ IsSome(db[k].expires_at)
         /\ from_persisted(db[k]).updated_at = last.arg.t
         /\ from_persisted(db[k]).created_at.f = 50

\* C3, as stated: when CLI add or POST /api/records/upsert rewrites an existing
\* entry, the value becomes the supplied one, a request that carries no tags leaves
\* the stored tag set unchanged (one that carries tags sets them, normalized), and
\* a request that carries no ttl_minutes leaves expires_at unchanged.
C3_OnlySuppliedFieldsChange ==
    [][(last'.op \in {"cli_add", "upsert"} /\ last'.res = "ok"
          /\ last'.key \in DOMAIN Found(db, last')) =>
         LET old == from_persisted(Found(db, last')[last'.key])
             new == from_persisted(db'[last'.key])
         IN  /\ new.value = last'.arg.value
             /\ new.tags = IF last'.arg.tags = <<>> THEN old.tags
                           ELSE normalize_tags(last'.arg.tags)
             /\ ~IsSome(last'.arg.ttl) => new.expires_at = old.expires_at]_vars

\* C3 without the path on which it fails: CLI add keeps the stored tags when the
\* command carries none; POST /api/records/upsert stores exactly the normalized
\* tags of the request, none when it carries none; both leave expires_at alone
\* when no ttl_minutes is supplied.
C3_UpsertReplacesTags ==
    [][(last'.op \in {"cli_add", "upsert"} /\ last'.res = "ok"
          /\ last'.key \in DOMAIN Found(db, last')) =>
         LET old == from_persisted(Found(db, last')[last'.key])
             new == from_persisted(db'[last'.key])
         IN  /\ new.value = last'.arg.value
             /\ new.tags = IF last'.arg.tags = <<>> /\ last'.op = "cli_add" THEN old.tags
                           ELSE normalize_tags(last'.arg.tags)
             /\ ~IsSome(last'.arg.ttl) => new.expires_at = old.expires_at]_vars

\* an upsert without tags and without ttl_minutes has rewritten an entry
C3_Witness ==
    /\ last.op = "upsert"
    /\ last.res = "ok"
    /\ last.had
    /\ last.arg.tags = <<>>
    /\ ~IsSome(last.arg.ttl)
    /\ IsSome(db[last.key].expires_at)

(***************************************************************************)
(* SpecTtl: expiry.  Entries get an expiry by upsert with ttl_minutes and  *)
(* by ttl/extend; cleanup_expired_entries runs at the start of every CLI   *)
(* process (run) and, in the serve loop, before a connection is handled    *)
(* when TTL_CLEANUP_INTERVAL has elapsed since the loop's last sweep;      *)
(* GET /data reads the table.                                              *)
(***************************************************************************)
\* a loop that would sweep before every connection
CleanupDue_always(t) == TRUE

\* last_cleanup.elapsed() >= TTL_CLEANUP_INTERVAL; last_cleanup starts one interval
\* in the past (None)
CleanupDue(t) ==
    IF IsSome(lastCleanup)
    THEN DtLeq(PlusHours(lastCleanup[1], CleanupIntervalHours), t)
    ELSE TRUE

Sweep(t, serving) ==
    /\ Step
    /\ serving => CleanupDue(t)
    /\ db' = cleanup_expired_entries(db, t).tbl
    /\ lastCleanup' = IF serving THEN Some(t) ELSE lastCleanup
    /\ now' = t
    /\ last' = Op("sweep", NoKey, "ok", db' # db, cleanup_expired_entries(db, t).deleted, t)
    /\ UNCHANGED <<stream, listener, meta, index, recentFile, cache, tx>>

\* GET /data; last.had tells whether it follows a sweep that removed rows
GetData ==
    /\ last' = Op("get_data", NoKey, "ok", last.op = "sweep" /\ last.n > 0,
                  Len(render_live_data(db)), render_live_data(db))
    /\ UNCHANGED <<stream, listener, meta, index, recentFile, db, cache, now, tx, lastCleanup, steps>>

ExtendInputs == {0, 1, MaxSpan + 1, WrapMinutes}

NextTtl ==
    \/ \E k \in Keys, ttl \in {1, TicksPerHour}, t \in Readings(now) :
          HttpUpsert(k, "1", <<>>, Some(ttl), t)
    \/ \E k \in Keys, m \in ExtendInputs, t \in Readings(now) : HttpTtlExtend(k, m, t)
    \/ \E t \in Readings(now), serving \in BOOLEAN : Sweep(t, serving)
    \/ GetData

SpecTtl == InitDb /\ [][NextTtl]_vars

\* C9: after a successful ttl/extend of key k by m >= 1 minutes, a sweep run
\* immediately afterwards (at the next instant) does not delete k.
C9_ExtendThenSweepKeeps ==
    [][(last.op = "ttl_extend" /\ last.res = "ok" /\ last.arg.ttl[1] >= 1
          /\ last'.op = "sweep" /\ last'.arg \in Soon(last.arg.t))
         => last.key \in DOMAIN db']_vars

\* C9 for the minute counts whose cast to i64 is positive: then the sweep keeps k,
\* also when the previous expiry was in the past
C9_InRangeExtendKept ==
    [][(last.op = "ttl_extend" /\ last.res = "ok" /\ AsSigned(last.arg.ttl[1]) >= 1
          /\ last'.op = "sweep" /\ last'.arg \in Soon(last.arg.t))
         => last.key \in DOMAIN db']_vars

\* C10, as stated: once the current time is past an entry's expires_at, the next
\* sweep deletes that entry.
C10_PastExpirySwept ==
    [][last'.op = "sweep" =>
         \A k \in DOMAIN db :
            (IsSome(Loaded(db)[k].expires_at)
               /\ DtLess(Loaded(db)[k].expires_at[1], last'.arg))
            => k \notin DOMAIN db']_vars

\* C10, amended: once the current time is at or past an entry's expires_at plus the
\* grace window, the next sweep deletes that entry, and a following GET /data lists
\* exactly the remaining rows, none of them due at the time of the sweep ([] when
\* none remains).
C10_DueSweptAndGone ==
    /\ [][last'.op = "sweep" => \A k \in DueKeys(db, last'.arg) : k \notin DOMAIN db']_vars
    /\ [][(last.op = "sweep" /\ last'.op = "get_data") =>
            LET body == last'.arg
            IN  /\ {body[i].key : i \in DOMAIN body} = DOMAIN db
                /\ \A i \in DOMAIN body :
                      ~(IsSome(body[i].expires_at)
                          /\ DtLeq(ParseRfc3339(body[i].expires_at[1]),
                                   MinusHours(last.arg, GraceHours)))
                /\ (db = EmptyTable => body = <<>>)]_vars

\* GET /data has returned [] right after a sweep that removed the only entry
C10_Witness ==
    /\ last.op = "get_data"
    /\ last.had
    /\ last.arg = <<>>

(***************************************************************************)
(* SpecSchema: one database path over its life.  The path starts with no   *)
(* file, or with a file some program left there: of any schema version,    *)
(* in either journal mode, with or without a kv table and rows.  The       *)
(* program connects to it, and writes rows while the file is one it can    *)
(* open.                                                                   *)
(***************************************************************************)
SchemaFiles ==
    {None} \cup {Some(Header(v, j, kv)) :
                    v \in {0, 1, SchemaVersion, 99}, j \in {"delete", "wal"}, kv \in BOOLEAN}

SchemaRows == {EmptyTable, Put(EmptyTable, <<Ch.a>>, RowOf(with_timestamps("1", <<TagX>>, Stamp(0, 0), Stamp(0, 50), None)))}

InitSchema ==
    /\ listener = "running"
    /\ stream = None
    /\ meta \in SchemaFiles
    /\ db \in IF IsSome(meta) /\ meta[1].kv THEN SchemaRows ELSE {EmptyTable}
    /\ cache = EmptyTable
    /\ now = Stamp(0, 0)
    /\ last = Op("init", NoKey, "ok", FALSE, 0, None)
    /\ tx = None
    /\ lastCleanup = None
    /\ steps = 0
    /\ index = Store_from_entries(<<>>)
    /\ recentFile = None

Openable == IsSome(meta) /\ meta[1].kv /\ meta[1].user_version = SchemaVersion

SchemaConnect(usable, ok) ==
    LET opened == connect(meta, db, usable, ok)
    IN  /\ Step
        /\ meta' = opened.file
        /\ db' = opened.tbl
        /\ last' = Op("connect", NoKey, opened.res, db # EmptyTable, Cardinality(DOMAIN db), meta)
        /\ UNCHANGED <<stream, listener, cache, now, tx, lastCleanup, index, recentFile>>

SchemaUpsert(k, e) ==
    /\ Step
    /\ Openable
    /\ db' = upsert_entry(db, k, e)
    /\ last' = Op("upsert", k, "ok", k \in DOMAIN db, 0, None)
    /\ UNCHANGED <<stream, listener, cache, now, tx, lastCleanup, meta, index, recentFile>>

SchemaDelete(k) ==
    /\ Step
    /\ Openable
    /\ db' = delete_entry(db, k).tbl
    /\ last' = Op("delete", k, delete_entry(db, k).res, k \in DOMAIN db, 0, None)
    /\ UNCHANGED <<stream, listener, cache, now, tx, lastCleanup, meta, index, recentFile>>

NextSchema ==
    \/ \E usable \in BOOLEAN, ok \in BOOLEAN : SchemaConnect(usable, ok)
    \/ \E k \in Keys, e \in DbEntries : SchemaUpsert(k, e)
    \/ \E k \in Keys : SchemaDelete(k)

SpecSchema == InitSchema /\ [][NextSchema]_vars

\* the file a connect found: the one at the path, or the empty one it creates
Found0(file) == IF IsSome(file) THEN file[1] ELSE EmptyFile

\* C11: a connect that fails with a schema mismatch performs no write: tables,
\* rows, stored schema version and persistent journal mode are as before
C11_FailedConnectWritesNothing ==
    [][last'.op = "connect" /\ last'.res = "SchemaMismatch"
          => meta' = meta /\ db' = db]_vars

\* what does hold of such a connect: tables, rows and version are as before
C11_MismatchKeepsSchemaAndRows ==
    [][last'.op = "connect" /\ last'.res = "SchemaMismatch"
          => /\ db' = db
             /\ meta'[1].user_version = meta[1].user_version
             /\ meta'[1].kv = meta[1].kv]_vars

C11_Witness ==
    /\ last.op = "connect"
    /\ last.res = "SchemaMismatch"
    /\ last.arg[1].user_version = 99
    /\ last.arg[1].journal_mode = "delete"
    /\ meta[1].journal_mode = "wal"

\* C12: the schema lifecycle.  Version 0 without a kv table: the table is
\* created and the version set to the current one together, or neither; version
\* 0 with a kv table: refused as legacy; the current version: opened with schema
\* and rows unaltered, however often; any other version: refused, never migrated
C12_SchemaLifecycle ==
    [][last'.op = "connect" /\ last'.res # "DbPath"
          => LET before == Found0(meta)
                 after == meta'[1]
             IN  /\ db' = db
                 /\ IF before.user_version = 0 /\ ~before.kv
                    THEN \/ /\ last'.res = "ok"
                            /\ after.kv /\ after.user_version = SchemaVersion
                         \/ /\ last'.res = "Db"
                            /\ ~after.kv /\ after.user_version = 0
                    ELSE /\ after.kv = before.kv
                         /\ after.user_version = before.user_version
                         /\ last'.res = IF before.user_version = 0 THEN "Legacy"
                                        ELSE IF before.user_version = SchemaVersion THEN "ok"
                                        ELSE "SchemaMismatch"]_vars

\* a file of the current version holding a row has been opened once more
C12_Witness ==
    /\ last.op = "connect"
    /\ last.res = "ok"
    /\ last.had
    /\ last.arg[1].user_version = SchemaVersion
    /\ db # EmptyTable

(***************************************************************************)
(* SpecStore: one Store and its side file.  A Store is built from an entry *)
(* list (any list: the constructor is public), recent history is enabled   *)
(* with a limit, and keys are accessed, inserted, removed and the Store    *)
(* reset, in any order.  The side file starts missing or with lines left   *)
(* by earlier runs: repeated keys, blank and padded lines, keys since      *)
(* deleted.                                                                *)
(***************************************************************************)
MaxOps == 5
MaxCapacity == 2

KeyA == <<Ch.a>>
KeyB == <<Ch.b>>
KeyPadded == <<Ch.sp, Ch.a>>

StoreKeys == {KeyA, KeyB, KeyPadded}

StoreEntry(value) == with_timestamps(value, <<>>, Stamp(0, 0), Stamp(0, 0), None)

StoreLists ==
    {<<>>,
     <<<<KeyA, StoreEntry("1")>>>>,
     <<<<KeyB, StoreEntry("1")>>, <<KeyA, StoreEntry("2")>>>>,
     <<<<KeyB, StoreEntry("1")>>, <<KeyPadded, StoreEntry("1")>>, <<KeyA, StoreEntry("1")>>>>,
     <<<<KeyA, StoreEntry("1")>>, <<KeyA, StoreEntry("2")>>>>}

RecentFiles ==
    {None, Some(<<>>), Some(Joined(<<KeyB, KeyA, KeyB>>)),
     Some(Joined(<<KeyA, <<>>, <<Ch.sp, Ch.b, Ch.sp>>>>))}

InitStore ==
    /\ listener = "running"
    /\ stream = None
    /\ index \in {Store_from_entries(entries) : entries \in StoreLists}
    /\ recentFile \in RecentFiles
    /\ cache = index.entries
    /\ db = EmptyTable
    /\ now = Stamp(0, 0)
    /\ last = Op("init", NoKey, "ok", FALSE, 0, None)
    /\ tx = None
    /\ lastCleanup = None
    /\ steps = 0
    /\ meta = Some(Header(SchemaVersion, "wal", TRUE))

StoreStep == steps < MaxOps /\ steps' = steps + 1

\* the Store and the side file an operation leaves
Leaves(left) ==
    /\ index' = left.store
    /\ recentFile' = left.file
    /\ cache' = left.store.entries
    /\ UNCHANGED <<stream, listener, db, now, tx, lastCleanup, meta>>

StoreLoad(entries) ==
    /\ StoreStep
    /\ Leaves(Left(Store_from_entries(entries), recentFile))
    /\ last' = Op("load", NoKey, "ok", FALSE, Len(entries), entries)

StoreEnable(limit) ==
    /\ StoreStep
    /\ Leaves(enable_recent_history(index, recentFile, RecentConfig_new(limit)))
    /\ last' = Op("enable", NoKey, "ok", IsSome(recentFile), RecentConfig_new(limit),
                  recentFile)

\* last.arg of a record_access: the keys of the cached-key accesses made in a
\* row up to this one, oldest first
StoreAccess(key) ==
    /\ StoreStep
    /\ Leaves(record_access(index, recentFile, key))
    /\ last' = Op("record_access", key, "ok", key \in DOMAIN index.entries, 0,
                  IF key \notin DOMAIN index.entries THEN <<>>
                  ELSE IF last.op = "record_access" THEN Append(last.arg, key)
                  ELSE <<key>>)

StoreInsert(key, entry) ==
    /\ StoreStep
    /\ Leaves(Left(Store_insert(index, key, entry), recentFile))
    /\ last' = Op("insert", key, "ok", key \in DOMAIN index.entries, 0, None)

StoreRemove(key) ==
    /\ StoreStep
    /\ Leaves(Store_remove(index, recentFile, key))
    /\ last' = Op("remove", key, "ok", key \in DOMAIN index.entries, 0, None)

StoreReset(entries) ==
    /\ StoreStep
    /\ Leaves(Store_reset(index, recentFile, entries))
    /\ last' = Op("reset", NoKey, "ok",
                  Range(index.recent) \cap Range(KeysOf(entries)) # {},
                  Len(entries), entries)

NextStore ==
    \/ \E entries \in StoreLists : StoreLoad(entries)
    \/ \E limit \in 0 .. MaxCapacity : StoreEnable(limit)
    \/ \E key \in StoreKeys : StoreAccess(key)
    \/ \E key \in StoreKeys : StoreInsert(key, StoreEntry("2"))
    \/ \E key \in StoreKeys : StoreRemove(key)
    \/ \E entries \in StoreLists : StoreReset(entries)

SpecStore == InitStore /\ [][NextStore]_vars

NoDuplicates(keys) == \A i, j \in DOMAIN keys : keys[i] = keys[j] => i = j

\* C13: whatever was done to the Store, the recent list holds no key twice,
\* at most recent_capacity keys, and only keys of the entry map
C13_RecentWellFormed ==
    /\ NoDuplicates(index.recent)
    /\ Len(index.recent) <= index.recent_capacity
    /\ Range(index.recent) \subseteq DOMAIN index.entries

\* a full log has just lost a key to remove and still holds another
C13_Witness ==
    /\ last.op = "remove"
    /\ last.had
    /\ IsSome(index.recent_file)
    /\ index.recent # <<>>
    /\ Len(index.recent) < index.recent_capacity

\* C14: once record_access has been called on recent_capacity distinct cached
\* keys and then on one further distinct cached key, the log holds exactly the
\* recent_capacity keys accessed last, the most recent first; the key accessed
\* least recently is gone
C14_CapacityKeysMostRecentFirst ==
    LET run == last.arg
        c == index.recent_capacity
        n == Len(run)
    IN  (/\ last.op = "record_access"
         /\ last.had
         /\ n > c
         /\ NoDuplicates(SubSeq(run, n - c, n)))
        => /\ index.recent = [i \in 1 .. c |-> run[n + 1 - i]]
           /\ run[n - c] \notin Range(index.recent)

C14_Witness ==
    /\ last.op = "record_access"
    /\ index.recent_capacity > 1
    /\ Len(last.arg) = index.recent_capacity + 1
    /\ NoDuplicates(last.arg)
    /\ Len(index.recent) = index.recent_capacity

\* the log a fresh Store over the same entries loads from the side file
Reloaded ==
    enable_recent_history(NewStore(index.entries, index.search_keys, <<>>,
                                   RECENT_CAPACITY, None),
                          recentFile, index.recent_capacity).store.recent

C15_FileMirrorsPlainKeys ==
    IsSome(index.recent_file)
        => /\ recentFile = Some(Joined(index.recent))
           /\ (\A k \in Range(index.recent) : Trim(k) = k /\ k # <<>>)
                 => Reloaded = index.recent

Occurrences(keys, key) == Cardinality({i \in DOMAIN keys : keys[i] = key})

\* C16: record_access of a key that is not cached changes neither the log nor
\* the side file; of a cached key it puts the key at the front, leaves the other
\* logged keys in their order, and never adds a second occurrence
C16_RecordAccessFrame ==
    [][last'.op = "record_access"
          => IF last'.key \notin DOMAIN index.entries
             THEN index' = index /\ recentFile' = recentFile
             ELSE LET others == Without(index.recent, last'.key)
                      kept == Without(index'.recent, last'.key)
                  IN  /\ index'.recent[1] = last'.key
                      /\ Occurrences(index'.recent, last'.key) = 1
                      /\ kept = SubSeq(others, 1, Len(kept))
                      /\ Len(others) < index.recent_capacity => kept = others
                      /\ index'.entries = index.entries
                      /\ index'.search_keys = index.search_keys]_vars

\* a logged key that was not at the front has been accessed again
C16_Witness ==
    /\ last.op = "record_access"
    /\ last.had
    /\ Len(last.arg) = 3
    /\ last.arg[1] = last.key
    /\ last.arg[2] # last.key
    /\ Len(index.recent) = 2
    /\ index.recent[1] = last.key

\* the keys a side file lists: its lines without surrounding blanks, blank
\* lines left out; none when there is no file
FileKeys(file) ==
    IF ~IsSome(file) THEN <<>>
    ELSE LET lines == Lines(file[1])
         IN  SelectSeq([i \in DOMAIN lines |-> Trim(lines[i])], LAMBDA k : k # <<>>)

RECURSIVE FirstOccurrences(_, _)
\* the keys of `keys` that are in `live`, each at its first occurrence only
FirstOccurrences(keys, live) ==
    IF keys = <<>> THEN <<>>
    ELSE IF Head(keys) \in live
         THEN <<Head(keys)>> \o FirstOccurrences(Tail(keys), live \ {Head(keys)})
         ELSE FirstOccurrences(Tail(keys), live)

\* C17: enable_recent_history sets the log to the first `capacity` keys of the
\* side file that are distinct and cached, in file order, keys that are not
\* cached being dropped before the cut; without a file the log is empty; the
\* pruned log is written back
C17_EnableLoadsPrunedFile ==
    [][last'.op = "enable"
          => LET capacity == last'.n
                 live == FirstOccurrences(FileKeys(recentFile), DOMAIN index.entries)
                 expected == SubSeq(live, 1, IF Len(live) < capacity THEN Len(live)
                                             ELSE capacity)
             IN  /\ index'.recent = expected
                 /\ index'.recent_capacity = capacity
                 /\ ~IsSome(recentFile) => index'.recent = <<>>
                 /\ recentFile' = Some(Joined(expected))]_vars

\* a file naming a dead key first and then more cached keys than the limit
C17_Witness ==
    /\ last.op = "enable"
    /\ IsSome(last.arg)
    /\ FileKeys(last.arg) # <<>>
    /\ FileKeys(last.arg)[1] \notin DOMAIN index.entries
    /\ Len(FileKeys(last.arg)) > Len(index.recent)
    /\ Len(index.recent) = index.recent_capacity
    /\ recentFile # last.arg

\* C18: reset re-prunes the log against the new key set: afterwards the log
\* consists of exactly the keys logged before that are among the new keys, in
\* their previous order, and the side file is rewritten to match
C18_ResetKeepsLiveKeys ==
    [][last'.op = "reset"
          => /\ index'.recent = Retain(index.recent, DOMAIN index'.entries)
             /\ IsSome(index.recent_file) => recentFile' = Some(Joined(index'.recent))]_vars

\* what reset does: the log is emptied, and with it the side file
C18_ResetEmptiesLog ==
    [][last'.op = "reset"
          => /\ index'.recent = <<>>
             /\ index'.entries = from_entries(last'.arg)
             /\ IsSome(index.recent_file) => recentFile' = Some(<<>>)]_vars

\* a reset whose entries hold a key that was logged
C18_Witness ==
    /\ last.op = "reset"
    /\ last.had
    /\ IsSome(index.recent_file)
    /\ index.entries # EmptyTable
    /\ index.recent = <<>>
    /\ recentFile = Some(<<>>)

KeyListOk(s) ==
    /\ \A i, j \in DOMAIN s.search_keys : i < j => StrLess(s.search_keys[i], s.search_keys[j])
    /\ Range(s.search_keys) = DOMAIN s.entries

\* C20: whatever lists the Store was loaded and reset from and whatever was
\* inserted and removed, the sorted key list is strictly ascending and names
\* exactly the keys of the entry map, so ordered() returns every stored pair
\* once in ascending key order
C20_KeyListMatchesEntries ==
    /\ KeyListOk(index)
    /\ Store_ordered(index) = ordered(index.entries)

\* what does hold: a load or reset from a list without a repeated key sets up
\* the key list, and the other operations keep it
C20_DistinctListsKeepKeyList ==
    [][/\ (last'.op \in {"load", "reset"} /\ NoDuplicates(KeysOf(last'.arg)))
             => KeyListOk(index') /\ Store_ordered(index') = ordered(index'.entries)
       /\ (last'.op \in {"insert", "remove", "record_access", "enable"} /\ KeyListOk(index))
             => KeyListOk(index') /\ Store_ordered(index') = ordered(index'.entries)]_vars

\* a Store loaded from a list that names a key twice lists the pair twice
C20_Witness ==
    /\ last.op = "load"
    /\ ~NoDuplicates(KeysOf(last.arg))
    /\ Len(Store_ordered(index)) = 2
    /\ Store_ordered(index)[1] = Store_ordered(index)[2]
    /\ Cardinality(DOMAIN index.entries) = 1

(***************************************************************************)
(* SpecRecent: one namespace, its database file and its recent-history     *)
(* file, used by CLI processes and by the viewer in turn.  A CLI process   *)
(* (run) connects, sweeps, loads the Store, enables recent history and     *)
(* executes one command; the viewer (Command::Serve) works on the database *)
(* alone and builds no Store.                                              *)
(***************************************************************************)
\* run(), up to the command dispatch: cleanup_expired_entries, load_entries,
\* Store::from_entries, enable_recent_history with the configured limit
run_store(tbl, file, t, limit) ==
    LET swept == cleanup_expired_entries(tbl, t).tbl
        opened == Store_from_entries(load_entries(swept))
    IN  [tbl |-> swept,
         left |-> IF limit > 0
                  THEN enable_recent_history(opened, file, RecentConfig_new(limit))
                  ELSE Left(opened, file)]

\* what a CLI process leaves: the table, its Store and the side file
Exits(op, key, res, t, tbl, left) ==
    /\ Step
    /\ db' = tbl
    /\ index' = left.store
    /\ recentFile' = left.file
    /\ now' = t
    /\ last' = Op(op, key, res, key \in DOMAIN db, 0, t)
    /\ UNCHANGED <<stream, listener, cache, tx, lastCleanup, meta>>

\* Command::Get: NotFound unless cached, else record_access
RunGet(key, t) ==
    LET o == run_store(db, recentFile, t, MaxCapacity)
        cached == key \in DOMAIN o.left.store.entries
    IN  Exits("get", key, IF cached THEN "ok" ELSE "NotFound", t, o.tbl,
              IF cached THEN record_access(o.left.store, o.left.file, key) ELSE o.left)

\* Command::Add: handle_add
RunAdd(key, value, t) ==
    LET o == run_store(db, recentFile, t, MaxCapacity)
        entry == AddEntry(o.left.store.entries, key, value, <<>>, t)
    IN  Exits("add", key, "ok", t, upsert_entry(o.tbl, key, entry),
              record_access(Store_insert(o.left.store, key, entry), o.left.file, key))

\* Command::Remove: handle_remove
RunRemove(key, t) ==
    LET o == run_store(db, recentFile, t, MaxCapacity)
        cached == key \in DOMAIN o.left.store.entries
    IN  Exits("remove", key, IF cached THEN "ok" ELSE "NotFound", t,
              IF cached THEN delete_entry(o.tbl, key).tbl ELSE o.tbl,
              IF cached THEN Store_remove(o.left.store, o.left.file, key) ELSE o.left)

\* Command::Import: handle_import of a file that parses
RunImport(file, t) ==
    LET o == run_store(db, recentFile, t, MaxCapacity)
        entries == ImportedEntries(file[1], t)
    IN  Exits("import", NoKey, "ok", t, replace_all(o.tbl, entries),
              Store_reset(o.left.store, o.left.file, entries))

NextRecent ==
    \/ \E k \in Keys, t \in Readings(now) : RunGet(k, t)
    \/ \E k \in Keys, v \in Values, t \in Readings(now) : RunAdd(k, v, t)
    \/ \E k \in Keys, t \in Readings(now) : RunRemove(k, t)
    \/ \E file \in ImportFiles \ {None}, t \in Readings(now) : RunImport(file, t)
    \/ \E k \in Keys, ttl \in {None, Some(1)}, t \in Soon(now) :
          HttpUpsert(k, "1", <<>>, ttl, t)
    \/ \E k \in Keys : HttpDelete(k)
    \/ \E k \in Keys, t \in Soon(now) : HttpTagAdd(k, TagX, t)
    \/ \E t \in Readings(now) : Sweep(t, TRUE)

SpecRecent == InitDb /\ [][NextRecent]_vars

\* C19: whatever CLI commands and viewer operations ran on the namespace, every
\* key the recent-history file lists is a key of the Durable Store
C19_FileKeysAreStored ==
    Range(FileKeys(recentFile)) \subseteq DOMAIN db

\* what does hold: at the end of every CLI process the file lists stored keys only
C19_CliLeavesStoredKeys ==
    [][last'.op \in {"get", "add", "remove", "import"}
          => /\ Range(FileKeys(recentFile')) \subseteq DOMAIN db'
             /\ recentFile' = Some(Joined(index'.recent))]_vars

\* the viewer has deleted a key that the file lists
C19_Witness ==
    /\ last.op \in {"delete", "sweep"}
    /\ IsSome(recentFile)
    /\ \E k \in Range(FileKeys(recentFile)) : k \notin DOMAIN db

(***************************************************************************)
(* store.rs: Store::search.  The fuzzy matcher is a parameter: `score`     *)
(* maps a text (a key or a tag) to what SkimMatcherV2::fuzzy_match returns *)
(* for it and the pattern, None or Some(i64).                              *)
(***************************************************************************)
\* Ord for Option<i64>: None is below every Some
OptionMax(x, y) ==
    IF ~IsSome(x) THEN y
    ELSE IF ~IsSome(y) THEN x
    ELSE IF x[1] >= y[1] THEN x ELSE y

RECURSIVE MaxOf(_)
\* Iterator::max over the scores that are Some
MaxOf(scores) ==
    IF scores = <<>> THEN None ELSE OptionMax(Head(scores), MaxOf(Tail(scores)))

matches_keys(scope) == scope \in {"All", "KeysOnly"}

matches_tags(scope) == scope \in {"All", "TagsOnly"}

\* a best_score that would take the key score alone under All
best_score_key(scope, key_score, tag_score) ==
    IF scope = "TagsOnly" THEN tag_score ELSE key_score

best_score(scope, key_score, tag_score) ==
    IF scope = "All" THEN OptionMax(key_score, tag_score)
    ELSE IF scope = "KeysOnly" THEN key_score
    ELSE tag_score

\* the score of one entry under the scope
ScoreOf(s, score, scope, key) ==
    LET tags == s.entries[key].tags
        key_score == IF matches_keys(scope) THEN score[key] ELSE None
        tag_score == IF matches_tags(scope)
                     THEN MaxOf([i \in DOMAIN tags |-> score[tags[i]]])
                     ELSE None
    IN  best_score(scope, key_score, tag_score)

Scored(score, key) == [score |-> score, key |-> key]

RECURSIVE SortByScore_unstable(_)
\* a descending sort that puts an element behind the equal ones that follow it
SortByScore_unstable(scored) ==
    IF scored = <<>> THEN <<>>
    ELSE LET rest == SortByScore_unstable(Tail(scored))
             ahead == Cardinality({i \in DOMAIN rest : rest[i].score >= Head(scored).score})
         IN  SubSeq(rest, 1, ahead) \o <<Head(scored)>> \o SubSeq(rest, ahead + 1, Len(rest))

RECURSIVE SortByScore(_)
\* sort_by(|a, b| b.score.cmp(&a.score)): descending, stable
SortByScore(scored) ==
    IF scored = <<>> THEN <<>>
    ELSE LET rest == SortByScore(Tail(scored))
             ahead == Cardinality({i \in DOMAIN rest : rest[i].score > Head(scored).score})
         IN  SubSeq(rest, 1, ahead) \o <<Head(scored)>> \o SubSeq(rest, ahead + 1, Len(rest))

search(s, score, pattern, limit, scope) ==
    LET cached == Retain(s.search_keys, DOMAIN s.entries)
        hits == SelectSeq(cached, LAMBDA k : IsSome(ScoreOf(s, score, scope, k)))
        scored == [i \in DOMAIN hits |-> Scored(ScoreOf(s, score, scope, hits[i])[1], hits[i])]
        sorted == Truncate(SortByScore(scored), limit)
    IN  IF pattern = <<>> \/ limit = 0 THEN <<>>
        ELSE [i \in DOMAIN sorted |-> <<sorted[i].key, s.entries[sorted[i].key]>>]

(***************************************************************************)
(* SpecSearch: one search on a loaded Store, for every Store, score        *)
(* function, pattern, limit and scope of the bounded sets.                 *)
(***************************************************************************)
MaxLimit == 3

SearchTexts == StoreKeys \cup {TagX, TagY}

Scores == {None, Some(0 - 1), Some(1), Some(2)}

Tagged(value, tags) == with_timestamps(value, tags, Stamp(0, 0), Stamp(0, 0), None)

SearchLists ==
    {<<<<KeyA, Tagged("1", <<TagX, TagY>>)>>>>,
     <<<<KeyB, Tagged("1", <<>>)>>, <<KeyA, Tagged("2", <<TagY>>)>>>>,
     <<<<KeyB, Tagged("1", <<TagX>>)>>, <<KeyPadded, Tagged("1", <<TagY>>)>>,
       <<KeyA, Tagged("1", <<>>)>>>>}

Scopes == {"All", "KeysOnly", "TagsOnly"}

InitSearch ==
    /\ listener = "running"
    /\ stream = None
    /\ index \in {Store_from_entries(entries) : entries \in SearchLists}
    /\ cache = index.entries
    /\ recentFile = None
    /\ db = EmptyTable
    /\ now = Stamp(0, 0)
    /\ last = Op("init", NoKey, "ok", FALSE, 0, None)
    /\ tx = None
    /\ lastCleanup = None
    /\ steps = 0
    /\ meta = Some(Header(SchemaVersion, "wal", TRUE))

Query(score, pattern, limit, scope, results) ==
    [score |-> score, pattern |-> pattern, limit |-> limit, scope |-> scope,
     results |-> results]

\* last.arg holds the arguments and the result of the search
Search(score, pattern, limit, scope) ==
    /\ last' = Op("search", pattern, "ok", pattern # <<>> /\ limit > 0, limit,
                  Query(score, pattern, limit, scope,
                        search(index, score, pattern, limit, scope)))
    /\ UNCHANGED <<stream, listener, db, cache, now, tx, lastCleanup, steps, meta, index, recentFile>>

\* one search per loaded Store
NextSearch ==
    /\ last.op = "init"
    /\ \E score \in [SearchTexts -> Scores], pattern \in {<<>>, TagX},
          limit \in 0 .. MaxLimit, scope \in Scopes :
           Search(score, pattern, limit, scope)

SpecSearch == InitSearch /\ [][NextSearch]_vars

\* the score the claim gives an entry: the key score under KeysOnly, the greatest
\* tag score under TagsOnly, the greater of the two under All
Qualifying(q, key) ==
    LET tag_scores == {q.score[t][1] : t \in {t \in Range(index.entries[key].tags) : IsSome(q.score[t])}}
        key_scores == IF IsSome(q.score[key]) THEN {q.score[key][1]} ELSE {}
    IN  IF q.scope = "KeysOnly" THEN key_scores
        ELSE IF q.scope = "TagsOnly" THEN tag_scores
        ELSE key_scores \cup tag_scores

Best(q, key) == CHOOSE m \in Qualifying(q, key) : \A o \in Qualifying(q, key) : o <= m

\* C21: search returns the first `limit` elements of the score-descending list
\* of exactly the entries with a qualifying score; nothing for an empty pattern
\* or limit 0; never more than `limit`
C21_SearchTopByScore ==
    last.op = "search"
        => LET q == last.arg
               found == q.results
               hits == {k \in DOMAIN index.entries : Qualifying(q, k) # {}}
               listed == {found[i][1] : i \in DOMAIN found}
           IN  /\ Len(found) <= q.limit
               /\ (q.pattern = <<>> \/ q.limit = 0) => found = <<>>
               /\ (q.pattern # <<>> /\ q.limit > 0)
                     => /\ Len(found) = IF Cardinality(hits) < q.limit
                                        THEN Cardinality(hits) ELSE q.limit
                        /\ listed \subseteq hits
                        /\ Cardinality(listed) = Len(found)
                        /\ \A i \in DOMAIN found : found[i][2] = index.entries[found[i][1]]
                        /\ \A i, j \in DOMAIN found :
                              i < j => Best(q, found[i][1]) >= Best(q, found[j][1])
                        /\ \A k \in hits \ listed, i \in DOMAIN found :
                              Best(q, found[i][1]) >= Best(q, k)

\* three entries qualify under All, one by its tag alone, and the limit cuts one
C21_Witness ==
    /\ last.op = "search"
    /\ last.arg.scope = "All"
    /\ last.arg.limit = 2
    /\ Len(last.arg.results) = 2
    /\ Cardinality(DOMAIN index.entries) = 3
    /\ \A k \in DOMAIN index.entries : Qualifying(last.arg, k) # {}
    /\ ~IsSome(last.arg.score[KeyB])
    /\ last.arg.results[1][1] = KeyB

(***************************************************************************)
(* SpecNormalize: Store::normalize_tags applied to every tag list of up    *)
(* to MaxTags tags, the tags being empty, blank, padded on either side,    *)
(* with an inner blank, or plain.                                          *)
(***************************************************************************)
MaxTags == 4

TagStrings ==
    {<<>>, <<Ch.sp>>, <<Ch.sp, Ch.sp>>, TagX, TagY, <<Ch.sp, Ch.x>>, <<Ch.x, Ch.sp>>,
     <<Ch.sp, Ch.y, Ch.sp>>, <<Ch.x, Ch.sp, Ch.y>>, <<Ch.x, Ch.y>>}

RECURSIVE TagLists(_)
TagLists(n) ==
    IF n = 0 THEN {<<>>}
    ELSE TagLists(n - 1) \cup {Append(l, t) : l \in {l \in TagLists(n - 1) : Len(l) = n - 1},
                                              t \in TagStrings}

Normalized(raw, tags) == [raw |-> raw, tags |-> tags]

\* last.arg holds the list given and the list returned
Normalize(raw) ==
    /\ last' = Op("normalize_tags", NoKey, "ok", raw # <<>>, Len(raw),
                  Normalized(raw, normalize_tags(raw)))
    /\ UNCHANGED <<stream, listener, db, cache, now, tx, lastCleanup, steps, meta, index, recentFile>>

\* one call per behaviour
NextNormalize ==
    /\ last.op = "init"
    /\ \E raw \in TagLists(MaxTags) : Normalize(raw)

SpecNormalize == InitDb /\ [][NextNormalize]_vars

Blank(tag) == \A i \in DOMAIN tag : tag[i] = Ch.sp

Canonical(tags) ==
    /\ \A i, j \in DOMAIN tags : i < j => StrLess(tags[i], tags[j])
    /\ \A i \in DOMAIN tags : ~Blank(tags[i])

\* C22: normalize_tags(x) is sorted ascending, has no duplicate, holds no empty
\* or blank string, holds exactly the distinct trimmed non-empty members of x,
\* and is left as it is by a second normalize_tags
C22_NormalizeTagsCanonical ==
    last.op = "normalize_tags"
        => LET raw == last.arg.raw
               tags == last.arg.tags
           IN  /\ Canonical(tags)
               /\ NoDuplicates(tags)
               /\ Range(tags) = {Trim(raw[i]) : i \in DOMAIN raw} \ {<<>>}
               /\ \A i \in DOMAIN tags : Trim(tags[i]) = tags[i]
               /\ normalize_tags(tags) = tags

\* an unsorted list with a blank tag and one tag given twice, once padded
C22_Witness ==
    /\ last.op = "normalize_tags"
    /\ last.arg.raw = <<TagY, <<Ch.sp>>, <<Ch.sp, Ch.x>>, TagX>>
    /\ last.arg.tags = <<TagX, TagY>>

(***************************************************************************)
(* SpecTagWrites: every write path on one store that starts empty: the CLI *)
(* commands add, put-file and import of a process that loaded its cache    *)
(* (CliOpen), and the viewer's upsert, tags/add, tags/remove, tags/rename  *)
(* and tags/delete.  The tag lists given are unsorted, padded, repeated    *)
(* and blank.                                                              *)
(***************************************************************************)
NextTagWrites ==
    \/ \E t \in Soon(now) : CliOpen(t)
    \/ \E k \in Keys, tg \in TagInputs, t \in Soon(now) : CliAdd(k, "1", tg, t, TRUE)
    \/ \E k \in Keys, tg \in TagInputs, t \in Soon(now) : CliPutFile(k, Some("2"), tg, t, TRUE)
    \/ \E file \in ImportFiles, t \in Soon(now) : CliImport(file, t, TRUE)
    \/ \E k \in Keys, tg \in TagInputs, t \in Soon(now) : HttpUpsert(k, "1", tg, None, t)
    \/ \E k \in Keys, tag \in TagAddInputs, t \in Soon(now) : HttpTagAdd(k, tag, t)
    \/ \E k \in Keys, tag \in TagNames, t \in Soon(now) : HttpTagRemove(k, tag, t)
    \/ \E from \in TagNames, to \in TagNames, t \in Soon(now) : HttpTagRename(from, to, t)
    \/ \E tag \in TagNames, t \in Soon(now) : HttpTagDelete(tag, t)

SpecTagWrites == InitDb /\ [][NextTagWrites]_vars

\* C23: from an empty store, whatever was written through whatever write path,
\* the tag list of every stored entry is sorted, without duplicates and without
\* empty or blank tags
C23_StoredTagsCanonical ==
    \A k \in DOMAIN db :
        /\ Canonical(from_persisted(db[k]).tags)
        /\ NoDuplicates(from_persisted(db[k]).tags)

\* a rename has merged two tags of an entry into one
C23_Witness ==
    /\ last.op = "tag_rename"
    /\ last.res = "ok"
    /\ \E k \in DOMAIN db : from_persisted(db[k]).tags = <<TagY>>
    /\ steps = 2

(***************************************************************************)
(* lib.rs: the HTTP gateway.  A connection is what the client and the      *)
(* socket do: `io` tells where the transport fails, if anywhere ("accept", *)
(* "clone" for try_clone, "eof" for a connection closed before a request   *)
(* line, "read" for a failing read of the head, "short" for a body shorter *)
(* than declared, "write" for a failing write of the response); `length`   *)
(* is the Content-Length header as parsed, 0 when absent and -1 when it    *)
(* does not parse; `body` is the payload the JSON body deserializes to,    *)
(* None when it does not; `fault` tells whether the database fails the     *)
(* handler's first statement.                                              *)
(***************************************************************************)
\* 128 * 1024
MAX_HTTP_BODY_BYTES == 131072

Payload(key, value, tags, ttl, tag, to) ==
    [key |-> key, value |-> value, tags |-> tags, ttl |-> ttl, tag |-> tag, to |-> to]

\* `path` and `query` are the pieces of the request target between its '?'
\* characters: the first piece and the pieces after it
Conn(io, method, path, length, body, fault) ==
    [io |-> io, method |-> method, path |-> path, length |-> length, body |-> body,
     fault |-> fault, query |-> <<>>]

\* the connection with the target path?query
Asking(conn, query) == [conn EXCEPT !.query = <<query>>]

\* raw_path.split('?'): the pieces of the request target
Target(conn) == <<conn.path>> \o conn.query

\* a router that would look at the last piece of the target
StripQuery_last(pieces) == pieces[Len(pieces)]

\* raw_path.split('?').next()
StripQuery(pieces) == pieces[1]

HttpRequest(method, path, body) == [method |-> method, path |-> path, body |-> body]

\* the HttpRequest read_http_request builds from the request line and the body
RequestOf(conn, body) == HttpRequest(conn.method, StripQuery(Target(conn)), body)

Read(res, request) == [res |-> res, request |-> request]

\* a read_http_request without the check of the declared length
read_http_request_unbounded(conn) ==
    IF conn.io = "eof" THEN Read("none", None)
    ELSE IF conn.io = "read" THEN Read("Io", None)
    ELSE IF conn.length < 0 THEN Read("InvalidInput", None)
    ELSE IF conn.length > 0 /\ conn.io = "short" THEN Read("Io", None)
    ELSE Read("ok", Some(RequestOf(conn, IF conn.length > 0 THEN conn.body ELSE None)))

\* read_http_request: Ok(None) is "none"; an Err is the class of its KvError
read_http_request(conn) ==
    IF conn.io = "eof" THEN Read("none", None)
    ELSE IF conn.io = "read" THEN Read("Io", None)
    ELSE IF conn.length < 0 THEN Read("InvalidInput", None)
    ELSE IF conn.length > MAX_HTTP_BODY_BYTES THEN Read("PayloadTooLarge", None)
    ELSE IF conn.length > 0 /\ conn.io = "short" THEN Read("Io", None)
    ELSE Read("ok", Some(RequestOf(conn, IF conn.length > 0 THEN conn.body ELSE None)))

\* an http_status_for_error that would answer every client error with 400
http_status_for_error_flat(error) ==
    IF error \in {"NotFound", "PayloadTooLarge", "InvalidInput", "DataFormat"}
    THEN "400 Bad Request"
    ELSE "500 Internal Server Error"

http_status_for_error(error) ==
    IF error = "NotFound" THEN "404 Not Found"
    ELSE IF error = "PayloadTooLarge" THEN "413 Payload Too Large"
    ELSE IF error \in {"InvalidInput", "DataFormat"} THEN "400 Bad Request"
    ELSE "500 Internal Server Error"

\* impl Display for KvError: the #[error] format of the class
Display(error) ==
    CASE error = "Io" -> "I/O error: {0}"
      [] error = "IoPath" -> "I/O error while {action} '{path}': {source}"
      [] error = "DataFormat" -> "data format error: {0}"
      [] error = "Db" -> "database error: {0}"
      [] error = "DbPath" -> "database error while opening '{path}': {source}"
      [] error = "ConfigFormat" -> "config format error: {0}"
      [] error = "Time" -> "time parse error: {0}"
      [] error = "NotFound" -> "key not found: {0}"
      [] error = "InvalidInput" -> "{0}"
      [] error = "PayloadTooLarge" -> "request body too large: {0} bytes"

\* a body that is a text followed by a newline
Line(text) == <<text, "\n">>

Response(status, content_type, body) ==
    [status |-> status, content_type |-> content_type, body |-> body]

write_api_text_response(result) ==
    IF result = "ok" THEN Response("200 OK", "text/plain; charset=utf-8", Line("{message}"))
    ELSE Response(http_status_for_error(result), "text/plain; charset=utf-8",
                  Line(Display(result)))

Routes ==
    {"/api/records/upsert", "/api/records/delete", "/api/records/tags/add",
     "/api/records/tags/remove", "/api/records/ttl/extend", "/api/tags/rename",
     "/api/tags/delete"}

\* the handler of a POST route on the payload its body deserializes to
Dispatch(path, p, tbl, utcNow) ==
    CASE path = "/api/records/upsert" ->
           handle_api_record_upsert(tbl, p.key, p.value, p.tags, p.ttl, utcNow)
      [] path = "/api/records/delete" -> handle_api_record_delete(tbl, p.key)
      [] path = "/api/records/tags/add" ->
           handle_api_record_tag_add(tbl, p.key, p.tag, utcNow)
      [] path = "/api/records/tags/remove" ->
           handle_api_record_tag_remove(tbl, p.key, p.tag, utcNow)
      [] path = "/api/records/ttl/extend" ->
           IF IsSome(p.ttl)
           THEN handle_api_record_ttl_extend(tbl, p.key, p.ttl[1], utcNow)
           ELSE Outcome("InvalidInput", tbl)
      [] path = "/api/tags/rename" -> handle_api_tag_rename(tbl, p.tag, p.to, utcNow)
      [] path = "/api/tags/delete" -> handle_api_tag_delete(tbl, p.tag, utcNow)

\* a database that fails fails the handler's first statement on it, which comes
\* after parse_json_request and the require_ checks
Faulted(run, fault, tbl) ==
    IF run.res = "InvalidInput" \/ ~fault THEN run ELSE Outcome("Db", tbl)

Handler(path, body, tbl, fault, utcNow) ==
    IF ~IsSome(body) THEN Outcome("InvalidInput", tbl)
    ELSE Faulted(Dispatch(path, body[1], tbl, utcNow), fault, tbl)

\* what a connection comes to: the result of handle_http_connection ("ok" or the
\* class of its error, "panic" when the handler aborts the process), the
\* response the client receives, the table, and the handler that ran
Served(res, response, tbl, handler) ==
    [res |-> res, response |-> response, tbl |-> tbl, handler |-> handler]

\* the handler a request was routed to and its result, "ok" or the class of its error
Ran(path, result) == [path |-> path, result |-> result]

\* write_http_response on a socket that takes the bytes, or does not
Written(conn, response, tbl, handler) ==
    IF conn.io = "write" THEN Served("Io", None, tbl, handler)
    ELSE Served("ok", Some(response), tbl, handler)

\* write_api_text_response on the handler's result
Answered(conn, out, path) ==
    IF out.res = "panic" THEN Served("panic", None, out.tbl, Some(Ran(path, out.res)))
    ELSE Written(conn, write_api_text_response(out.res), out.tbl, Some(Ran(path, out.res)))

handle_http_connection(conn, tbl, utcNow) ==
    LET read == read_http_request(conn)
        request == read.request[1]
        route == <<request.method, request.path>>
    IN  IF conn.io = "clone" THEN Served("Io", None, tbl, None)
        ELSE IF read.res = "none" THEN Served("ok", None, tbl, None)
        ELSE IF read.res # "ok" THEN Served(read.res, None, tbl, None)
        ELSE IF route \in {<<"GET", "/">>, <<"GET", "/data">>}
        THEN IF conn.fault THEN Served("Db", None, tbl, Some(Ran(request.path, "Db")))
             ELSE Written(conn,
                          IF request.path = "/"
                          THEN Response("200 OK", "text/html; charset=utf-8",
                                        <<render_live_data(tbl)>>)
                          ELSE Response("200 OK", "application/json; charset=utf-8",
                                        <<render_live_data(tbl)>>),
                          tbl, Some(Ran(request.path, "ok")))
        ELSE IF route = <<"GET", "/health">>
        THEN Written(conn, Response("200 OK", "text/plain; charset=utf-8", Line("ok")), tbl, None)
        ELSE IF route = <<"GET", "/favicon.ico">>
        THEN Written(conn, Response("204 No Content", "text/plain; charset=utf-8", <<>>),
                     tbl, None)
        ELSE IF request.method = "POST" /\ request.path \in Routes
        THEN Answered(conn, Handler(request.path, request.body, tbl, conn.fault, utcNow),
                      request.path)
        ELSE Written(conn, Response("404 Not Found", "text/plain; charset=utf-8",
                                    Line("not found")), tbl, None)

(***************************************************************************)
(* SpecServe: serve_viewer.  Every step is one turn of the loop over       *)
(* listener.incoming(): the sweep when it is due, then the connection.     *)
(* last records the turn: res is the result of handle_http_connection      *)
(* ("accept" for a stream that is an Err, "sweep" for a sweep that         *)
(* failed), had tells whether the sweep was due, and arg holds the         *)
(* connection, the table the connection met, the response the client       *)
(* received, the handler that ran and the result of the turn before.      *)
(***************************************************************************)
Spaces == <<Ch.sp>>

BodyBytes == 16

Post(path, payload) == Conn("ok", "POST", path, BodyBytes, Some(payload), FALSE)

Get_(path) == Conn("ok", "GET", path, 0, None, FALSE)

Payloads ==
    {Post("/api/records/upsert", Payload(k, "1", tags, ttl, <<>>, <<>>)) :
        k \in {<<Ch.a>>, Spaces}, tags \in {<<TagX>>}, ttl \in {None, Some(0), Some(1)}}
    \cup {Post("/api/records/delete", Payload(k, "", <<>>, None, <<>>, <<>>)) :
        k \in {<<Ch.a>>, Spaces}}
    \cup {Post(path, Payload(<<Ch.a>>, "", <<>>, None, tag, <<>>)) :
        path \in {"/api/records/tags/add", "/api/records/tags/remove"},
        tag \in {TagY, Spaces}}
    \cup {Post("/api/records/ttl/extend", Payload(<<Ch.a>>, "", <<>>, Some(m), <<>>, <<>>)) :
        m \in {0, 1, WrapMinutes}}
    \cup {Post("/api/tags/rename", Payload(<<>>, "", <<>>, None, TagX, to)) :
        to \in {TagX, TagY, Spaces}}
    \cup {Post("/api/tags/delete", Payload(<<>>, "", <<>>, None, tag, <<>>)) :
        tag \in {TagX, Spaces}}

\* Content-Length values: unparsable, a small body, one byte over the limit
Lengths == {0 - 1, BodyBytes, MAX_HTTP_BODY_BYTES + 1}

Connections ==
    Payloads
    \cup {Conn("ok", "POST", path, n, None, FALSE) : path \in Routes, n \in {0, BodyBytes}}
    \cup {Get_(path) : path \in {"/", "/data", "/health", "/favicon.ico", "/nope"}}
    \cup {Conn(io, "GET", "/data", 0, None, FALSE) : io \in {"accept", "clone", "eof", "read", "write"}}
    \cup {Conn("ok", "GET", path, 0, None, TRUE) : path \in {"/", "/data"}}
    \cup {Asking(Get_("/data"), "x=1"),
          Asking(Post("/api/records/delete", Payload(<<Ch.a>>, "", <<>>, None, <<>>, <<>>)),
                 "x=1")}
    \cup {Conn("ok", "POST", "/data", 0, None, FALSE),
          Conn("ok", "PUT", "/", 0, None, FALSE),
          Conn("ok", "get", "/health", 0, None, FALSE),
          Conn("ok", "GET", "/api/records/delete", BodyBytes,
               Some(Payload(<<Ch.a>>, "", <<>>, None, <<>>, <<>>)), FALSE),
          Conn("ok", "DELETE", "/api/records/delete", BodyBytes,
               Some(Payload(<<Ch.a>>, "", <<>>, None, <<>>, <<>>)), FALSE),
          Conn("ok", "POST", "/api/records/delete/", BodyBytes,
               Some(Payload(<<Ch.a>>, "", <<>>, None, <<>>, <<>>)), FALSE)}
    \cup {Conn(io, "POST", "/api/records/upsert", n,
               Some(Payload(<<Ch.b>>, "2", <<>>, None, <<>>, <<>>)), fault) :
            io \in {"ok", "short", "write"}, n \in Lengths,
            fault \in BOOLEAN}

Turn(conn, met, response, handler) ==
    [conn |-> conn, met |-> met, response |-> response, handler |-> handler,
     prev |-> last.res]

\* a loop that would leave with the error of a connection
Connection_fatal(conn, due, met, served) ==
    IF conn.io = "accept"
    THEN /\ db' = met
         /\ listener' = listener
         /\ last' = Op("serve", NoKey, "accept", due, 0, Turn(conn, met, None, None))
    ELSE /\ db' = served.tbl
         /\ listener' = IF served.res = "ok" THEN listener ELSE "stopped"
         /\ last' = Op("serve", NoKey, served.res, due, 0,
                       Turn(conn, met, served.response, served.handler))

\* the connection of a turn: `met` is the table it meets, `served` what
\* handle_http_connection comes to
Connection(conn, due, met, served) ==
    IF conn.io = "accept"
    THEN /\ db' = met
         /\ listener' = listener
         /\ last' = Op("serve", NoKey, "accept", due, 0, Turn(conn, met, None, None))
    ELSE /\ db' = served.tbl
         /\ listener' = IF served.res = "panic" THEN "stopped" ELSE listener
         /\ last' = Op("serve", NoKey, served.res, due, 0,
                       Turn(conn, met, served.response, served.handler))

\* the sweep of a turn, on the table it leaves when it is due and succeeds
Swept(conn, t, due, met) ==
    /\ lastCleanup' = IF due THEN Some(t) ELSE lastCleanup
    /\ Connection(conn, due, met, handle_http_connection(conn, met, t))

\* one turn of the loop: `sweepOk` tells whether cleanup_expired_entries succeeds
Accept(conn, t, sweepOk) ==
    /\ listener = "running"
    /\ Step
    /\ now' = t
    /\ IF CleanupDue(t) /\ ~sweepOk
       THEN /\ listener' = "stopped"
            /\ last' = Op("serve", NoKey, "sweep", TRUE, 0, Turn(conn, db, None, None))
            /\ UNCHANGED <<db, lastCleanup>>
       ELSE Swept(conn, t, CleanupDue(t),
                  IF CleanupDue(t) THEN cleanup_expired_entries(db, t).tbl ELSE db)
    /\ UNCHANGED <<stream, meta, index, recentFile, cache, tx>>

NextServe ==
    \E t \in Readings(now) : \E sweepOk \in IF CleanupDue(t) THEN BOOLEAN ELSE {TRUE} :
        \E conn \in Connections : Accept(conn, t, sweepOk)

SpecServe == InitDb /\ [][NextServe]_vars

\* the results of a turn whose connection failed: the stream was an Err,
\* handle_http_connection returned an Err, the client closed before a request
\* line, or the response is not a success
ErrorClasses == {"Io", "InvalidInput", "PayloadTooLarge", "Db"}

FailedTurn(res, response) ==
    \/ res \in ErrorClasses \cup {"accept"}
    \/ res = "ok" /\ ~IsSome(response)
    \/ res = "ok" /\ IsSome(response) /\ response[1].status \notin {"200 OK", "204 No Content"}

C25_FailedSweepKeepsListener ==
    (last.op = "serve" /\ last.res = "sweep") => listener = "running"

\* a turn whose sweep was due and failed
C25_Witness ==
    /\ last.op = "serve"
    /\ last.res = "sweep"
    /\ last.had
    /\ last.arg.conn.io = "ok"
    /\ ~IsSome(last.arg.response)

\* C26: a request routed to a handler (GET /, GET /data, the seven POST
\* routes) whose handler returns an error, on a socket that takes the
\* response, is answered with the status of the error's class and the error's
\* display message, ended by a newline, as plain text.
C26_HandlerFailureIsAnswered ==
    (/\ last.op = "serve"
     /\ IsSome(last.arg.handler)
     /\ last.arg.conn.io = "ok"
     /\ last.arg.handler[1].result \in ErrorClasses \cup {"NotFound"})
        => last.arg.response =
              Some(Response(http_status_for_error(last.arg.handler[1].result),
                            "text/plain; charset=utf-8",
                            Line(Display(last.arg.handler[1].result))))

\* GET /data whose handler failed on the database: no response was written
C26_Witness ==
    /\ last.op = "serve"
    /\ last.arg.conn.io = "ok"
    /\ last.arg.handler = Some(Ran("/data", "Db"))
    /\ ~IsSome(last.arg.response)
    /\ listener = "running"

(***************************************************************************)
(* SpecStatus: write_api_text_response applied to handler errors of every  *)
(* variant of KvError, with any detail.                                    *)
(***************************************************************************)
KvErrors ==
    {"Io", "IoPath", "DataFormat", "Db", "DbPath", "ConfigFormat", "Time", "NotFound",
     "InvalidInput", "PayloadTooLarge"}

Details == {"", "a", "b", "invalid json body", "131073"}

Report(class, detail) ==
    /\ Step
    /\ last' = Op("status", NoKey, write_api_text_response(class).status, FALSE, 0,
                  [class |-> class, detail |-> detail,
                   response |-> write_api_text_response(class)])
    /\ UNCHANGED <<stream, listener, meta, index, recentFile, db, cache, now, tx, lastCleanup>>

NextStatus == \E class \in KvErrors, detail \in Details : Report(class, detail)

SpecStatus == InitDb /\ [][NextStatus]_vars

\* C27: the status of an error response depends on the class of the error
\* alone: 404 for NotFound, 413 for PayloadTooLarge, 400 for InvalidInput and
\* DataFormat, 500 for every other class (Io, IoPath, Db, DbPath, ConfigFormat,
\* Time).
C27_StatusMapping ==
    last.op = "status" =>
        /\ last.arg.class = "NotFound" => last.res = "404 Not Found"
        /\ last.arg.class = "PayloadTooLarge" => last.res = "413 Payload Too Large"
        /\ last.arg.class \in {"InvalidInput", "DataFormat"} => last.res = "400 Bad Request"
        /\ last.arg.class \in {"Io", "IoPath", "Db", "DbPath", "ConfigFormat", "Time"}
              => last.res = "500 Internal Server Error"
        /\ last.res \in {"404 Not Found", "413 Payload Too Large", "400 Bad Request",
                         "500 Internal Server Error"}

\* an oversized body answered with 413, after an earlier error response
C27_Witness ==
    /\ last.op = "status"
    /\ last.arg.class = "PayloadTooLarge"
    /\ last.res = "413 Payload Too Large"
    /\ steps > 1

\* C28: a connection whose Content-Length is above MAX_HTTP_BODY_BYTES runs
\* no handler and leaves the table as it met it; once the head of the
\* request is read the result is PayloadTooLarge, also when the body that
\* follows is shorter than declared, so the body is not read.
C28_OversizedBodyRejectedUnread ==
    (/\ last.op = "serve"
     /\ last.res # "sweep"
     /\ last.arg.conn.length > MAX_HTTP_BODY_BYTES)
        => /\ ~IsSome(last.arg.handler)
           /\ db = last.arg.met
           /\ last.arg.conn.io \in {"ok", "short", "write"} => last.res = "PayloadTooLarge"

\* an oversized upsert of key b with a truncated body, met by a table that holds
\* key a and does not get key b
C28_Witness ==
    /\ last.op = "serve"
    /\ last.arg.conn.length > MAX_HTTP_BODY_BYTES
    /\ last.arg.conn.io = "short"
    /\ last.res = "PayloadTooLarge"
    /\ DOMAIN db = {<<Ch.a>>}
    /\ db = last.arg.met

\* C29: a connection rejected with PayloadTooLarge, on a socket that takes a
\* response, is answered with 413 Payload Too Large and the display message
\* of the error as plain text.
C29_OversizedBodyGets413 ==
    (/\ last.op = "serve"
     /\ last.res = "PayloadTooLarge"
     /\ last.arg.conn.io = "ok")
        => last.arg.response =
              Some(Response("413 Payload Too Large", "text/plain; charset=utf-8",
                            Line(Display("PayloadTooLarge"))))

\* an oversized request that was rejected and got no response
C29_Witness ==
    /\ last.op = "serve"
    /\ last.res = "PayloadTooLarge"
    /\ last.arg.conn.io = "ok"
    /\ last.arg.conn.length = MAX_HTTP_BODY_BYTES + 1
    /\ ~IsSome(last.arg.response)

\* the fields a POST route requires to be non-empty after trimming
Required(path, p) ==
    CASE path \in {"/api/records/upsert", "/api/records/delete", "/api/records/ttl/extend"}
           -> {p.key}
      [] path \in {"/api/records/tags/add", "/api/records/tags/remove"} -> {p.key, p.tag}
      [] path = "/api/tags/rename" -> {p.tag, p.to}
      [] path = "/api/tags/delete" -> {p.tag}

\* the tags of the entry stored under a key, and whether some entry carries a tag
TagsOf(tbl, key) == Range(from_persisted(tbl[key]).tags)

Carried(tbl, tag) == \E k \in DOMAIN tbl : tag \in TagsOf(tbl, k)

\* the requests the gateway answers with 400: a body that is not the JSON of the
\* payload, an empty or whitespace-only required field, ttl_minutes = 0, a
\* rename with from = to
Malformed(conn) ==
    \/ conn.length = 0
    \/ ~IsSome(conn.body)
    \/ \E field \in Required(conn.path, conn.body[1]) : Trim(field) = <<>>
    \/ conn.path \in {"/api/records/upsert", "/api/records/ttl/extend"}
          /\ conn.body[1].ttl = Some(0)
    \/ conn.path = "/api/tags/rename" /\ Trim(conn.body[1].tag) = Trim(conn.body[1].to)

\* the well-formed requests the gateway answers with 404 on table tbl
Absent(conn, tbl) ==
    LET p == conn.body[1]
    IN  \/ conn.path \in {"/api/records/delete", "/api/records/tags/add",
                          "/api/records/tags/remove", "/api/records/ttl/extend"}
              /\ Trim(p.key) \notin DOMAIN tbl
        \/ conn.path = "/api/records/tags/remove"
              /\ Trim(p.key) \in DOMAIN tbl
              /\ Trim(p.tag) \notin TagsOf(tbl, Trim(p.key))
        \/ conn.path \in {"/api/tags/rename", "/api/tags/delete"}
              /\ ~Carried(tbl, Trim(p.tag))

Status(response) == IF IsSome(response) THEN response[1].status ELSE "none"

\* C30: a POST to one of the seven mutation routes, read in full on a socket
\* that takes the response, is answered with 400 and leaves the table as it
\* met it when it is malformed, and with 404 and the same table when it is
\* well formed, the database works and its key or tag is absent; every
\* request whose handler returns InvalidInput or NotFound leaves the table
\* unchanged.
C30_RejectedMutationsChangeNothing ==
    (/\ last.op = "serve"
     /\ last.arg.conn.io = "ok"
     /\ last.arg.conn.method = "POST"
     /\ last.arg.conn.path \in Routes
     /\ last.arg.conn.length \in 0 .. MAX_HTTP_BODY_BYTES
     /\ last.res # "sweep")
        => /\ Malformed(last.arg.conn)
                => Status(last.arg.response) = "400 Bad Request" /\ db = last.arg.met
           /\ (/\ ~Malformed(last.arg.conn)
               /\ ~last.arg.conn.fault
               /\ Absent(last.arg.conn, last.arg.met))
                => Status(last.arg.response) = "404 Not Found" /\ db = last.arg.met
           /\ (/\ IsSome(last.arg.handler)
               /\ last.arg.handler[1].result \in {"InvalidInput", "NotFound"})
                => db = last.arg.met

\* tags/remove of a tag the stored entry does not carry: 404, and the entry
\* keeps its tags
C30_Witness ==
    /\ last.op = "serve"
    /\ last.arg.conn.io = "ok"
    /\ last.arg.conn.path = "/api/records/tags/remove"
    /\ IsSome(last.arg.conn.body)
    /\ <<Ch.a>> \in DOMAIN db
    /\ TagsOf(db, <<Ch.a>>) = {TagX}
    /\ last.arg.conn.body[1].tag = TagY
    /\ Status(last.arg.response) = "404 Not Found"
    /\ db = last.arg.met

\* what a successful tags/rename or tags/delete of `tag` (renamed to to[1]
\* when to is Some) makes of the entries `before`
RetagFrame(before, after, tag, to) ==
    /\ DOMAIN after = DOMAIN before
    /\ \A k \in DOMAIN before :
          /\ after[k].value = before[k].value
          /\ after[k].created_at = before[k].created_at
          /\ after[k].expires_at = before[k].expires_at
          /\ tag \notin Range(after[k].tags)
          /\ (IsSome(to) /\ tag \in Range(before[k].tags)) => to[1] \in Range(after[k].tags)
          /\ tag \notin Range(before[k].tags) => after[k] = before[k]

\* C31: a successful POST /api/tags/rename {from, to} or /api/tags/delete
\* {tag} keeps the key set and every value, created_at and expires_at; after
\* it no entry carries from (tag), every entry that carried from carries to,
\* and the entries that did not carry it are unchanged in every field.
C31_RetagFrame ==
    [][(last'.op \in {"tag_rename", "tag_delete"} /\ last'.res = "ok")
         => RetagFrame(Loaded(db), Loaded(db'), Trim(last'.arg.tags[1]),
                       IF last'.op = "tag_rename"
                       THEN Some(Trim(last'.arg.tags[2])) ELSE None)]_vars

\* a rename of x to y on a table where key a carried x and has an expiry and key
\* b carried no tag and was written earlier
C31_Witness ==
    /\ last.op = "tag_rename"
    /\ last.res = "ok"
    /\ last.arg.tags = <<TagX, TagY>>
    /\ DOMAIN db = Keys
    /\ Loaded(db)[<<Ch.a>>].tags = <<TagY>>
    /\ IsSome(Loaded(db)[<<Ch.a>>].expires_at)
    /\ Loaded(db)[<<Ch.b>>].tags = <<>>
    /\ DtLess(Loaded(db)[<<Ch.b>>].updated_at, Loaded(db)[<<Ch.a>>].updated_at)

(***************************************************************************)
(* SpecPhases: serve_viewer with handle_http_connection taken one phase at *)
(* a time.  stream holds the connection, the phase that comes next (`at`), *)
(* the phases it went through (`seen`), the table it met, the request once *)
(* it is read, and the result, the response and the handler once they are  *)
(* known.  A connection is accepted by PhaseAccept, goes through the       *)
(* phases and is dropped by PhaseClose, which records it in last.          *)
(***************************************************************************)
PhaseOrder ==
    <<"ReadRequestLine", "ReadHeaders", "ReadBody", "Route", "WriteResponse", "Close">>

Stream(conn, at, seen, met, request, served) ==
    [conn |-> conn, at |-> at, seen |-> seen, met |-> met, request |-> request,
     served |-> served]

\* the stream moved on to phase `at`, with `phase` done
Moved(at, phase, request, served) ==
    Some(Stream(stream[1].conn, at, Append(stream[1].seen, phase), stream[1].met,
                request, served))

Pending == Served("ok", None, EmptyTable, None)

\* a reader that would leave the declared body on the socket
AfterHeaders_skip(conn) == "Route"

\* the phase after the headers: read_exact runs only if content_length > 0
AfterHeaders(conn) == IF conn.length > 0 THEN "ReadBody" ELSE "Route"

\* the for loop takes the next stream: the sweep when it is due, then the call
\* of handle_http_connection
PhaseAccept(conn, t, sweepOk) ==
    /\ listener = "running"
    /\ stream = None
    /\ Step
    /\ now' = t
    /\ IF CleanupDue(t) /\ ~sweepOk
       THEN /\ listener' = "stopped"
            /\ last' = Op("serve", NoKey, "sweep", TRUE, 0, <<>>)
            /\ UNCHANGED <<db, lastCleanup, stream>>
       ELSE /\ listener' = listener
            /\ lastCleanup' = IF CleanupDue(t) THEN Some(t) ELSE lastCleanup
            /\ db' = IF CleanupDue(t) THEN cleanup_expired_entries(db, t).tbl ELSE db
            /\ IF conn.io = "accept"
               THEN /\ stream' = None
                    /\ last' = Op("serve", NoKey, "accept", CleanupDue(t), 0, <<>>)
               ELSE /\ stream' = Some(Stream(conn, "ReadRequestLine", <<>>, db', None,
                                             Pending))
                    /\ last' = Op("accept", NoKey, "ok", CleanupDue(t), 0, <<>>)
    /\ UNCHANGED <<meta, index, recentFile, cache, tx>>

\* what a phase leaves alone
PhaseFrame == UNCHANGED <<listener, meta, index, recentFile, cache, tx, now, lastCleanup,
                          steps, last>>

\* try_clone and the read_line of the request line
ReadRequestLine ==
    /\ stream # None
    /\ stream[1].at = "ReadRequestLine"
    /\ stream' =
         IF stream[1].conn.io = "clone"
         THEN Some([stream[1] EXCEPT !.at = "Close",
                                     !.served = Served("Io", None, db, None)])
         ELSE IF stream[1].conn.io = "eof"
         THEN Moved("Close", "ReadRequestLine", None, Served("ok", None, db, None))
         ELSE IF stream[1].conn.io = "read"
         THEN Moved("Close", "ReadRequestLine", None, Served("Io", None, db, None))
         ELSE Moved("ReadHeaders", "ReadRequestLine", None, Pending)
    /\ UNCHANGED db
    /\ PhaseFrame

\* the header loop and the check of the declared length
ReadHeaders ==
    /\ stream # None
    /\ stream[1].at = "ReadHeaders"
    /\ stream' =
         IF stream[1].conn.length < 0
         THEN Moved("Close", "ReadHeaders", None, Served("InvalidInput", None, db, None))
         ELSE IF stream[1].conn.length > MAX_HTTP_BODY_BYTES
         THEN Moved("Close", "ReadHeaders", None, Served("PayloadTooLarge", None, db, None))
         ELSE Moved(AfterHeaders(stream[1].conn), "ReadHeaders",
                    Some(RequestOf(stream[1].conn, None)),
                    Pending)
    /\ UNCHANGED db
    /\ PhaseFrame

\* read_exact of content_length bytes
ReadBody ==
    /\ stream # None
    /\ stream[1].at = "ReadBody"
    /\ stream' =
         IF stream[1].conn.io = "short"
         THEN Moved("Close", "ReadBody", None, Served("Io", None, db, None))
         ELSE Moved("Route", "ReadBody",
                    Some(RequestOf(stream[1].conn, stream[1].conn.body)),
                    Pending)
    /\ UNCHANGED db
    /\ PhaseFrame

\* the match on (method, path) and the handler it calls, on a request that is
\* read: the response is the one to write
Routed(request, served) ==
    /\ db' = served.tbl
    /\ IF served.res = "panic"
       THEN /\ listener' = "stopped"
            /\ stream' = Moved("Aborted", "Route", Some(request), served)
       ELSE /\ listener' = listener
            /\ stream' = Moved(IF IsSome(served.response) THEN "WriteResponse" ELSE "Close",
                               "Route", Some(request), served)

Route ==
    /\ stream # None
    /\ stream[1].at = "Route"
    /\ Routed(stream[1].request[1],
              handle_http_connection(
                  Conn("ok", stream[1].request[1].method, stream[1].request[1].path,
                       IF IsSome(stream[1].request[1].body) THEN BodyBytes ELSE 0,
                       stream[1].request[1].body, stream[1].conn.fault),
                  db, now))
    /\ UNCHANGED <<meta, index, recentFile, cache, tx, now, lastCleanup, steps, last>>

\* write_http_response
WriteResponse ==
    /\ stream # None
    /\ stream[1].at = "WriteResponse"
    /\ stream' =
         IF stream[1].conn.io = "write"
         THEN Moved("Close", "WriteResponse", stream[1].request,
                    [stream[1].served EXCEPT !.res = "Io", !.response = None])
         ELSE Moved("Close", "WriteResponse", stream[1].request, stream[1].served)
    /\ UNCHANGED db
    /\ PhaseFrame

\* handle_http_connection returns and the stream is dropped
PhaseClose ==
    /\ stream # None
    /\ stream[1].at = "Close"
    /\ stream' = None
    /\ last' = Op("serve", NoKey, stream[1].served.res, last.had, 0,
                  [conn |-> stream[1].conn, met |-> stream[1].met,
                   seen |-> Append(stream[1].seen, "Close"),
                   response |-> stream[1].served.response,
                   handler |-> stream[1].served.handler])
    /\ UNCHANGED <<db, listener, meta, index, recentFile, cache, tx, now, lastCleanup, steps>>

NextPhases ==
    \/ \E t \in Readings(now) : \E sweepOk \in IF CleanupDue(t) THEN BOOLEAN ELSE {TRUE} :
          \E conn \in Connections : PhaseAccept(conn, t, sweepOk)
    \/ ReadRequestLine
    \/ ReadHeaders
    \/ ReadBody
    \/ Route
    \/ WriteResponse
    \/ PhaseClose

SpecPhases == InitDb /\ [][NextPhases]_vars

Idx(phase) == CHOOSE i \in DOMAIN PhaseOrder : PhaseOrder[i] = phase

\* the phases are those of PhaseOrder, in its order, each at most once
InOrder(seen) ==
    /\ Range(seen) \subseteq Range(PhaseOrder)
    /\ \A i, j \in DOMAIN seen : i < j => Idx(seen[i]) < Idx(seen[j])

\* the body is read only when a length above 0 is declared; the route is taken,
\* and a handler runs, only after the head and the whole declared body are
\* read; a response is there only after the route
WellRead(conn, seen, served) ==
    /\ "ReadBody" \in Range(seen) => conn.length > 0
    /\ "Route" \in Range(seen) =>
          /\ {"ReadRequestLine", "ReadHeaders"} \subseteq Range(seen)
          /\ conn.length > 0 => "ReadBody" \in Range(seen)
    /\ IsSome(served.handler) => "Route" \in Range(seen)
    /\ IsSome(served.response) => "Route" \in Range(seen)
    /\ "WriteResponse" \in Range(seen) => "Route" \in Range(seen)

PhasesOk ==
    /\ stream # None =>
          /\ InOrder(stream[1].seen)
          /\ WellRead(stream[1].conn, stream[1].seen, stream[1].served)
    /\ (last.op = "serve" /\ last.arg # <<>>) =>
          /\ InOrder(last.arg.seen)
          /\ last.arg.seen[Len(last.arg.seen)] = "Close"
          /\ WellRead(last.arg.conn, last.arg.seen, last.arg)
          /\ IsSome(last.arg.response) => "WriteResponse" \in Range(last.arg.seen)

\* C32: a connection goes through ReadRequestLine, ReadHeaders, ReadBody (only
\* with a declared length above 0), Route, WriteResponse and Close in that
\* order and each at most once; no handler runs before the declared body is
\* read; and a connection is accepted only when no connection is in progress,
\* the one before having been closed.
C32_ConnectionPhases ==
    [][/\ PhasesOk'
       /\ (stream' # None /\ stream' # stream /\ stream'[1].at = "ReadRequestLine")
            => (stream = None /\ last.op \in {"init", "serve"})]_vars

\* a second connection that went through all six phases and got its response
C32_Witness ==
    /\ stream = None
    /\ last.op = "serve"
    /\ last.arg # <<>>
    /\ last.arg.seen = PhaseOrder
    /\ IsSome(last.arg.response)
    /\ steps = 2

\* the routing table of handle_http_connection
RoutingTable ==
    {<<"GET", path>> : path \in {"/", "/data", "/health", "/favicon.ico"}}
    \cup {<<"POST", path>> : path \in Routes}

\* C33: a request read in full, on a socket that takes the response, whose
\* method and path (the target up to its first '?') are not a pair of the
\* routing table is answered with 404, runs no handler and leaves the table
\* as it met it; a request with a query string is answered, and changes the
\* table, exactly as the request without it.
C33_UnroutedIs404 ==
    (/\ last.op = "serve"
     /\ last.res # "sweep"
     /\ last.arg.conn.io = "ok"
     /\ last.arg.conn.length \in 0 .. MAX_HTTP_BODY_BYTES)
        => /\ <<last.arg.conn.method, last.arg.conn.path>> \notin RoutingTable
                => /\ Status(last.arg.response) = "404 Not Found"
                   /\ ~IsSome(last.arg.handler)
                   /\ db = last.arg.met
           /\ last.arg.conn.query # <<>>
                => /\ last.arg.response =
                        handle_http_connection([last.arg.conn EXCEPT !.query = <<>>],
                                               last.arg.met, now).response
                   /\ db = handle_http_connection([last.arg.conn EXCEPT !.query = <<>>],
                                                  last.arg.met, now).tbl

\* DELETE /api/records/delete of a stored key: answered 404, the key is kept
C33_Witness ==
    /\ last.op = "serve"
    /\ last.arg.conn.method = "DELETE"
    /\ last.arg.conn.path = "/api/records/delete"
    /\ IsSome(last.arg.conn.body)
    /\ Status(last.arg.response) = "404 Not Found"
    /\ <<Ch.a>> \in DOMAIN last.arg.met
    /\ <<Ch.a>> \in DOMAIN db

(***************************************************************************)
(* SpecLive: the viewer next to another process.  The serve loop answers   *)
(* GET /data and mutation requests; the other process (a kv command on the *)
(* same file) upserts and deletes rows between the connections.            *)
(***************************************************************************)
LiveConnections ==
    {Get_("/data"), Asking(Get_("/data"), "x=1"),
     Post("/api/records/upsert", Payload(<<Ch.a>>, "1", <<TagX>>, Some(1), <<>>, <<>>)),
     Post("/api/records/delete", Payload(<<Ch.a>>, "", <<>>, None, <<>>, <<>>)),
     Post("/api/tags/rename", Payload(<<>>, "", <<>>, None, TagX, TagY))}

\* what the other process writes
LiveEntries ==
    {e \in DbEntries : e.created_at = Stamp(0, 50) /\ e.expires_at # Some(Stamp(1, 50))}

NextLive ==
    \/ \E t \in Readings(now) : \E sweepOk \in IF CleanupDue(t) THEN BOOLEAN ELSE {TRUE} :
          \E conn \in LiveConnections : Accept(conn, t, sweepOk)
    \/ \E k \in Keys, e \in LiveEntries : DbUpsert(k, e)
    \/ \E k \in Keys : DbDelete(k)

SpecLive == InitDb /\ [][NextLive]_vars

\* the object of GET /data for key, read back, is the row of the table
ShowsRow(object, row) ==
    /\ object.value = row.value
    /\ object.tags = ParseTagsJson(row.tags)
    /\ ParseRfc3339(object.created_at) = ParseRfc3339(row.created_at)
    /\ ParseRfc3339(object.updated_at) = ParseRfc3339(row.updated_at)
    /\ IsSome(object.expires_at) = IsSome(row.expires_at)
    /\ IsSome(row.expires_at)
          => ParseRfc3339(object.expires_at[1]) = ParseRfc3339(row.expires_at[1])

ShowsTable(objects, tbl) ==
    /\ Len(objects) = Cardinality(DOMAIN tbl)
    /\ \A i \in DOMAIN objects :
          /\ objects[i].key \in DOMAIN tbl
          /\ ShowsRow(objects[i], tbl[objects[i].key])
    /\ \A i, j \in DOMAIN objects : i < j => StrLess(objects[i].key, objects[j].key)

\* C34: the body of a successful GET /data is one object per row of the table
\* as the request met it, whoever wrote the rows, in ascending order of the
\* keys, with the fields of the row.
C34_DataShowsStore ==
    (/\ last.op = "serve"
     /\ last.arg.conn.method = "GET"
     /\ last.arg.conn.path = "/data"
     /\ Status(last.arg.response) = "200 OK")
        => ShowsTable(last.arg.response[1].body[1], last.arg.met)

\* a GET /data that shows both rows, b written by the other process with an
\* expiry, after the first connection
C34_Witness ==
    /\ last.op = "serve"
    /\ last.arg.conn.path = "/data"
    /\ Status(last.arg.response) = "200 OK"
    /\ Len(last.arg.response[1].body[1]) = 2
    /\ last.arg.response[1].body[1][2].key = <<Ch.b>>
    /\ last.arg.response[1].body[1][2].value = "2"
    /\ IsSome(last.arg.response[1].body[1][2].expires_at)
    /\ steps >= 2

(***************************************************************************)
(* lib.rs: the namespace of a run.  A name is the sequence of the codes of *)
(* its characters.                                                         *)
(***************************************************************************)
MaxNameLen == 3

\* the characters of the names tried: a letter of each case, a digit, the three
\* marks, the neighbours of the letter and digit ranges, a space, a slash and
\* a character outside ASCII
NameChars ==
    [a |-> 97, Z |-> 90, zero |-> 48, underscore |-> 95, hyphen |-> 45, dot |-> 46,
     slash |-> 47, colon |-> 58, at |-> 64, lbr |-> 91, grave |-> 96, lbrace |-> 123,
     sp |-> 32, eacute |-> 233]

is_ascii_alphanumeric(ch) ==
    \/ ch \in 48 .. 57
    \/ ch \in 65 .. 90
    \/ ch \in 97 .. 122

\* a check that would let the dot segments through
validate_namespace_chars(namespace) ==
    IF \A i \in DOMAIN namespace :
          is_ascii_alphanumeric(namespace[i])
              \/ namespace[i] \in {NameChars.underscore, NameChars.hyphen, NameChars.dot}
    THEN "ok"
    ELSE "InvalidInput"

validate_namespace(namespace) ==
    IF namespace \in {<<NameChars.dot>>, <<NameChars.dot, NameChars.dot>>}
    THEN "InvalidInput"
    ELSE IF \A i \in DOMAIN namespace :
               is_ascii_alphanumeric(namespace[i])
                   \/ namespace[i] \in {NameChars.underscore, NameChars.hyphen, NameChars.dot}
    THEN "ok"
    ELSE "InvalidInput"

\* "default"
DEFAULT_NAMESPACE == <<100, 101, 102, 97, 117, 108, 116>>

\* resolve_namespace: the --namespace argument, else KVSTORE_NAMESPACE, else the
\* default, the first that is not empty once trimmed
Resolved(raw, env) ==
    IF IsSome(raw) /\ Trim(raw[1]) # <<>> THEN Trim(raw[1])
    ELSE IF IsSome(env) /\ Trim(env[1]) # <<>> THEN Trim(env[1])
    ELSE DEFAULT_NAMESPACE

(***************************************************************************)
(* SpecNamespace: the start of run with any --namespace argument and       *)
(* environment: the namespace is resolved and validated, and only then is  *)
(* the database file of the namespace opened (created when missing).       *)
(* last.had tells whether Database::connect was reached.                   *)
(***************************************************************************)
Names == UNION {[1 .. n -> Range(NameChars)] : n \in 0 .. MaxNameLen}

RunNamespace(raw, env) ==
    /\ last' = Op("run", NoKey, validate_namespace(Resolved(raw, env)),
                  validate_namespace(Resolved(raw, env)) = "ok", 0,
                  [raw |-> raw, env |-> env, namespace |-> Resolved(raw, env)])
    /\ UNCHANGED <<stream, listener, db, cache, now, tx, lastCleanup, steps, meta, index,
                   recentFile>>

\* one run per behaviour
NextNamespace ==
    /\ last.op = "init"
    /\ \E raw \in {None} \cup {Some(name) : name \in Names} :
          \E env \in IF IsSome(raw) /\ Trim(raw[1]) # <<>>
                     THEN {None}
                     ELSE {None, Some(<<NameChars.dot, NameChars.dot>>),
                           Some(<<NameChars.sp, NameChars.a, NameChars.hyphen>>)} :
             RunNamespace(raw, env)

SpecNamespace == InitDb /\ [][NextNamespace]_vars

\* the characters a namespace may be made of
NamespaceChars ==
    (48 .. 57) \cup (65 .. 90) \cup (97 .. 122)
        \cup {NameChars.underscore, NameChars.hyphen, NameChars.dot}

\* C35: the namespace of a run is accepted exactly when it is neither "." nor
\* ".." and all its characters are ASCII letters, ASCII digits, '_', '-' or
\* '.'; any other is rejected with InvalidInput and the database file is not
\* opened.
C35_NamespaceValidated ==
    last.op = "run" =>
        /\ last.res = "ok" <=>
              /\ last.arg.namespace \notin {<<46>>, <<46, 46>>}
              /\ Range(last.arg.namespace) \subseteq NamespaceChars
        /\ last.res # "ok" => (last.res = "InvalidInput" /\ ~last.had)

\* --namespace .. is rejected before the file is opened
C35_Witness ==
    /\ last.op = "run"
    /\ last.arg.raw = Some(<<46, 46>>)
    /\ last.res = "InvalidInput"
    /\ ~last.had

\* whether TTL_CLEANUP_INTERVAL has elapsed at t since the sweep recorded in
\* `swept`, None standing for no sweep since startup
Elapsed(swept, t) ==
    ~IsSome(swept) \/ DtLeq(PlusHours(swept[1], CleanupIntervalHours), t)

\* C36: a turn of the serve loop sweeps, before its connection, exactly when
\* the interval has elapsed since the loop's last sweep or no sweep was made
\* yet: then the connection meets the swept table and the sweep is recorded
\* at the time of the turn; otherwise the connection meets the table as it
\* was and the record of the last sweep stays.  Two recorded sweeps are at
\* least the interval apart, and a step that is not a turn of the loop does
\* not sweep.
C36_SweepWhenDue ==
    [][/\ (last'.op = "serve" /\ last'.res # "sweep") =>
            /\ Elapsed(lastCleanup, now') =>
                  /\ lastCleanup' = Some(now')
                  /\ last'.arg.met = cleanup_expired_entries(db, now').tbl
            /\ ~Elapsed(lastCleanup, now') =>
                  /\ lastCleanup' = lastCleanup
                  /\ last'.arg.met = db
       /\ (IsSome(lastCleanup) /\ lastCleanup' # lastCleanup) =>
            DtLeq(PlusHours(lastCleanup[1], CleanupIntervalHours), lastCleanup'[1])
       /\ last'.op # "serve" => lastCleanup' = lastCleanup]_vars

\* the third connection, swept an hour or more after the first, with a
\* connection in between that was not
C36_Witness ==
    /\ last.op = "serve"
    /\ last.res = "ok"
    /\ last.had
    /\ steps = 3
    /\ lastCleanup = Some(now)
    /\ now.t < StartTick + 2 * TicksPerHour
    /\ DOMAIN db # {}

(***************************************************************************)
(* SpecRace: tags/rename and tags/delete next to another process.  The     *)
(* handler reads the table with load_entries, a statement of its own, and  *)
(* writes with replace_all, a transaction of its own; the other process    *)
(* commits upserts and deletes at any moment, also between the two.  While *)
(* the handler is between them, stream holds its request and the entries   *)
(* it loaded.                                                              *)
(***************************************************************************)
Retagging(tag, to, entries, t) == [tag |-> tag, to |-> to, entries |-> entries, t |-> t]

\* parse_json_request, the require_ checks and database.load_entries()
RetagLoad(rawTag, rawTo, t) ==
    /\ stream = None
    /\ Step
    /\ Trim(rawTag) # <<>>
    /\ IsSome(rawTo) => (Trim(rawTo[1]) # <<>> /\ Trim(rawTo[1]) # Trim(rawTag))
    /\ stream' = Some(Retagging(Trim(rawTag),
                                IF IsSome(rawTo) THEN Some(Trim(rawTo[1])) ELSE None,
                                load_entries(db), t))
    /\ now' = t
    /\ last' = Op("load", NoKey, "ok", FALSE, 0, None)
    /\ UNCHANGED <<db, listener, meta, index, recentFile, cache, tx, lastCleanup>>

\* the loop over the loaded entries and database.replace_all(&entries); last.arg
\* keeps the entries loaded and the table the transaction found
RetagWrite ==
    /\ stream # None
    /\ db' = IF Changed(stream[1].entries, stream[1].tag) = 0 THEN db
             ELSE replace_all(db, Retagged(stream[1].entries, stream[1].tag,
                                           stream[1].to, stream[1].t))
    /\ stream' = None
    /\ last' = Op("retag", NoKey,
                  IF Changed(stream[1].entries, stream[1].tag) = 0 THEN "NotFound" ELSE "ok",
                  load_entries(db) # stream[1].entries, 0,
                  [loaded |-> from_entries(stream[1].entries), found |-> db,
                   tag |-> stream[1].tag, to |-> stream[1].to])
    /\ UNCHANGED <<listener, meta, index, recentFile, cache, tx, now, lastCleanup, steps>>

NextRace ==
    \/ \E tag \in TagNames, to \in {None} \cup {Some(name) : name \in TagNames},
          t \in Soon(now) : RetagLoad(tag, to, t)
    \/ RetagWrite
    \/ \E k \in Keys, e \in LiveEntries : DbUpsert(k, e)
    \/ \E k \in Keys : DbDelete(k)

SpecRace == InitDb /\ [][NextRace]_vars

\* C37: after a successful tags/rename or tags/delete, a key that the other
\* process inserted, or whose value it updated, between the handler's
\* load_entries and its replace_all is present with the content the other
\* process gave it.
C37_OtherWritesSurvive ==
    (last.op = "retag" /\ last.res = "ok") =>
        \A k \in DOMAIN last.arg.found :
            (\/ k \notin DOMAIN last.arg.loaded
             \/ from_persisted(last.arg.found[k]).value # last.arg.loaded[k].value)
                => /\ k \in DOMAIN db
                   /\ from_persisted(db[k]).value = from_persisted(last.arg.found[k]).value

\* a rename or delete that committed after the other process had inserted key b,
\* and key b is gone
C37_Witness ==
    /\ last.op = "retag"
    /\ last.res = "ok"
    /\ <<Ch.b>> \in DOMAIN last.arg.found
    /\ <<Ch.b>> \notin DOMAIN last.arg.loaded
    /\ <<Ch.b>> \notin DOMAIN db

\* what a successful tags/add, tags/remove (of `tag`) or ttl/extend on key k
\* makes of table `old`
RecordFrame(op, k, tag, old, new) ==
    /\ DOMAIN new = DOMAIN old
    /\ \A j \in DOMAIN old \ {k} : new[j] = old[j]
    /\ from_persisted(new[k]).value = from_persisted(old[k]).value
    /\ from_persisted(new[k]).created_at = from_persisted(old[k]).created_at
    /\ op \in {"tag_add", "tag_remove"} =>
          from_persisted(new[k]).expires_at = from_persisted(old[k]).expires_at
    /\ op = "tag_add" =>
          /\ Range(from_persisted(new[k]).tags) = Range(from_persisted(old[k]).tags) \cup {tag}
          /\ tag \in Range(from_persisted(old[k]).tags) => new = old
    /\ op = "tag_remove" =>
          Range(from_persisted(new[k]).tags) = Range(from_persisted(old[k]).tags) \ {tag}
    /\ op = "ttl_extend" => from_persisted(new[k]).tags = from_persisted(old[k]).tags

\* C38: a successful POST /api/records/tags/add, tags/remove or ttl/extend on
\* key k leaves every other row, and k's value and created_at, unchanged; the
\* tag requests leave k's expires_at and change the tag set by the one tag,
\* ttl/extend leaves k's tags; tags/add of a tag k carries writes nothing.
C38_RecordFrame ==
    [][(last'.op \in {"tag_add", "tag_remove", "ttl_extend"} /\ last'.res = "ok")
         => RecordFrame(last'.op, Trim(last'.key),
                        IF last'.op = "ttl_extend" THEN <<>> ELSE Trim(last'.arg.tags[1]),
                        db, db')]_vars

\* tags/add of a tag the entry carries, later than the entry's last write: ok,
\* and updated_at is still that of the last write
C38_Witness ==
    /\ last.op = "tag_add"
    /\ last.res = "ok"
    /\ last.key \in DOMAIN db
    /\ Trim(last.arg.tags[1]) \in Range(from_persisted(db[last.key]).tags)
    /\ DtLess(from_persisted(db[last.key]).updated_at, last.arg.t)
    /\ DOMAIN db = Keys

\* C39: an upsert with ttl_minutes >= 1, and a ttl/extend by ttl_minutes >= 1
\* of a stored key, returns (the handler does not panic) and leaves the key
\* with an expires_at strictly later than the time of the request.
C39_TtlLaterWithoutAbort ==
    (/\ last.op \in {"upsert", "ttl_extend"}
     /\ IsSome(last.arg.ttl)
     /\ last.arg.ttl[1] >= 1
     /\ last.res \notin {"InvalidInput", "NotFound"})
        => /\ last.res = "ok"
           /\ last.key \in DOMAIN db
           /\ IsSome(from_persisted(db[last.key]).expires_at)
           /\ DtLess(last.arg.t, from_persisted(db[last.key]).expires_at[1])

\* a ttl/extend by a minute count whose cast is negative: answered ok, and the
\* expiry it leaves is before the time of the request
C39_Witness ==
    /\ last.op = "ttl_extend"
    /\ last.res = "ok"
    /\ last.arg.ttl[1] = WrapMinutes
    /\ last.key \in DOMAIN db
    /\ DtLess(from_persisted(db[last.key]).expires_at[1], last.arg.t)

(***************************************************************************)
(* C40: the result of a search is fixed by the entries, the scores, the    *)
(* limit and the scope.                                                    *)
(***************************************************************************)
\* key comes before other in the order of the results: the greater score first,
\* the lesser key first among equal scores
Before(q, key, other) ==
    \/ Best(q, key) > Best(q, other)
    \/ Best(q, key) = Best(q, other) /\ StrLess(key, other)

\* C40: the keys a search returns are the first `limit` qualifying keys in the
\* order of descending score and, among equal scores, ascending key: each
\* listed key comes before the ones listed after it and before every
\* qualifying key the limit cut, so the same entries, scores, limit and scope
\* give the same sequence of keys
C40_SearchTiesAscending ==
    (last.op = "search" /\ last.arg.pattern # <<>> /\ last.arg.limit > 0)
        => LET q == last.arg
               found == q.results
               hits == {k \in DOMAIN index.entries : Qualifying(q, k) # {}}
               listed == {found[i][1] : i \in DOMAIN found}
           IN  /\ listed \subseteq hits
               /\ Len(found) = IF Cardinality(hits) < q.limit
                                THEN Cardinality(hits) ELSE q.limit
               /\ \A i, j \in DOMAIN found :
                     i < j => Before(q, found[i][1], found[j][1])
               /\ \A k \in hits \ listed, i \in DOMAIN found :
                     Before(q, found[i][1], k)

\* three keys qualify with the same score and the limit keeps the two least
C40_Witness ==
    /\ last.op = "search"
    /\ last.arg.scope = "KeysOnly"
    /\ last.arg.limit = 2
    /\ DOMAIN index.entries = {KeyA, KeyB, KeyPadded}
    /\ \A k \in DOMAIN index.entries : last.arg.score[k] = Some(1)
    /\ Len(last.arg.results) = 2
    /\ \A i \in DOMAIN last.arg.results : StrLess(last.arg.results[i][1], KeyB)

====
